---- MODULE Spec2Model ----
(***************************************************************************)
(* Order-execution engine of BullishorBust (jonathanbbiles/BorB4).         *)
(*                                                                         *)
(* Frontend (src/BullishorBust/Frontend/App.js): placeOrder, the account   *)
(* sizing inside it, placeLimitSell, loadData and the module-level maps    *)
(* lastTradeTime, positionMeta and pendingLimitOrders.                     *)
(* Backend (src/unnamed/part_001, the trade module): placeLimitBuyThenSell *)
(* and placeMarketBuyThenSell.                                             *)
(*                                                                         *)
(* Money is counted in micro-dollars (1e-6 $) so that every product the    *)
(* code forms with 0.1, 0.05 and 0.97 on cent-valued inputs is an exact    *)
(* integer; Math.floor(x * 100) / 100 is flooring to a multiple of Cent.   *)
(* A JavaScript number is a record [nan, v]: NaN compares false with       *)
(* everything, as in the language.  An async function is one action per    *)
(* stretch of code between two awaits; the brokerage and the price feed    *)
(* answer each request with any outcome they can give.                     *)
(***************************************************************************)
EXTENDS Integers, Sequences, FiniteSets, TLC

Dollar == 1000 * 1000
Cent == 10 * 1000

----------------------------------------------------------------------------
(* JavaScript numbers *)

NaN == [nan |-> TRUE, v |-> 0]
Num(x) == [nan |-> FALSE, v |-> x]
isNaN(a) == a.nan

\* a < b, a > b, a <= b: false as soon as one side is NaN
Lt(a, b) == ~a.nan /\ ~b.nan /\ a.v < b.v
Gt(a, b) == Lt(b, a)
Le(a, b) == ~a.nan /\ ~b.nan /\ a.v <= b.v

\* Math.min(a, b): NaN if either argument is NaN
MathMin(a, b) == IF a.nan \/ b.nan THEN NaN ELSE IF a.v <= b.v THEN a ELSE b

Sub(a, b) == IF a.nan \/ b.nan THEN NaN ELSE Num(a.v - b.v)

\* x * (pct / 100).  Every amount the code multiplies is a multiple of 100
\* micro-dollars, so dividing first is exact and stays within 32 bits.
MulPct(a, pct) == IF a.nan THEN NaN ELSE Num((a.v \div 100) * pct)

\* floor(n * 10^digits / d) by long division, for 0 <= n and 0 < d
RECURSIVE ScaledDiv(_, _, _)
ScaledDiv(n, d, digits) ==
    IF digits = 0 THEN n \div d
    ELSE (n \div d) * (10 ^ digits) + ScaledDiv((n % d) * 10, d, digits - 1)

\* (n * 10^digits) % d = 0, by the same long division
RECURSIVE ScaledDivExact(_, _, _)
ScaledDivExact(n, d, digits) ==
    IF digits = 0 THEN n % d = 0
    ELSE ScaledDivExact((n % d) * 10, d, digits - 1)

\* a * b > 10^12 and a * b < 10^12 for positive a and b, without forming the
\* product: 10^12 is one dollar when a and b are both counted in millionths
ProductAboveOne(a, b) == a > ScaledDiv(1000 * 1000, b, 6)
ProductBelowOne(a, b) ==
    /\ ~ProductAboveOne(a, b)
    /\ ~(ScaledDivExact(1000 * 1000, b, 6) /\ a = ScaledDiv(1000 * 1000, b, 6))

\* Math.floor(x * 100) / 100, on exact amounts.  (In binary floating point a
\* product such as 9.7 * 100 falls just below the integer, and the code's
\* result is then one cent lower than the exact one.)
Floor2(a) == IF a.nan THEN NaN ELSE Num((a.v \div Cent) * Cent)

\* (x * num / den).toFixed(...): the exact product rounded to the nearest
\* multiple of step, halves up, without forming x * num.  With
\* A = (x \div den) * num and B = (x % den) * num the product is A + B / den.
RoundedProduct(x, num, den, step) ==
    LET A == (x \div den) * num
        B == (x % den) * num
    IN  ((A \div step)
           + (2 * (A % step) * den + 2 * B + step * den) \div (2 * step * den))
        * step

----------------------------------------------------------------------------
(* Raw JSON fields of the account read *)

Absent == [kind |-> "absent", v |-> 0]
NonNumeric == [kind |-> "text", v |-> 0]
Field(x) == [kind |-> "num", v |-> x]

\* a ?? b
Coalesce(a, b) == IF a.kind = "absent" THEN b ELSE a

\* parseFloat(raw): a numeric string or number gives its value, any other
\* string gives NaN
parseFloat(raw) == IF raw.kind = "num" THEN Num(raw.v) ELSE NaN

----------------------------------------------------------------------------
(* Frontend strategy constants *)

\* 30 * 60 * 1000 ms
COOL_DOWN_MS == 1800000
\* const SAFETY_MARGIN = 1 (dollar)
SAFETY_MARGIN == Dollar
\* 0.02 and 0.01, in hundredths
PRICE_COLLAR_PERCENT == 2
EXTRA_BUFFER == 1
SAFETY_FACTOR == 100 - PRICE_COLLAR_PERCENT - EXTRA_BUFFER
\* slope >= 0.05 halves the base fraction; slopes are counted in hundredths
SLOPE_THRESHOLD == 5
BASE_FRACTION == 10
STRONG_FRACTION == 5
\* Alpaca's $1 minimum
MIN_NOTIONAL == Dollar

----------------------------------------------------------------------------
(* placeOrder, allocation sizing (App.js 688-780) *)

\* const cash = parseFloat(cashRaw || 0): an absent cashRaw is falsy, so 0
AccountCash(acct) ==
    LET cashRaw == Coalesce(acct.non_marginable_buying_power,
                            Coalesce(acct.buying_power, acct.cash))
    IN  IF cashRaw.kind = "absent" \/ (cashRaw.kind = "num" /\ cashRaw.v = 0)
        THEN Num(0)
        ELSE parseFloat(cashRaw)

\* parseFloat(accountData.equity ?? accountData.portfolio_value ?? '0')
AccountEquity(acct) ==
    parseFloat(Coalesce(acct.equity, Coalesce(acct.portfolio_value, Field(0))))

TargetAllocation(portfolioValue, slope) ==
    MulPct(portfolioValue, IF slope >= SLOPE_THRESHOLD THEN STRONG_FRACTION
                                                       ELSE BASE_FRACTION)

\* allocation after the safety factor and the "never exceeds cash" guard
Allocation(cash, targetAllocation) ==
    LET a0 == MathMin(targetAllocation, Sub(cash, Num(SAFETY_MARGIN)))
        a1 == MulPct(a0, SAFETY_FACTOR)
    IN  IF Gt(a1, cash) THEN Floor2(cash) ELSE a1

\* The sizing of placeOrder as one function of the account read and the
\* slope: [skip, reason, notional].  skip = TRUE is one of the three return
\* statements; otherwise notional is what the order is built from.
AllocationSize(acct, slope) ==
    LET cash == AccountCash(acct)
        portfolioValue == AccountEquity(acct)
        targetAllocation == TargetAllocation(portfolioValue, slope)
        allocation == Allocation(cash, targetAllocation)
        n0 == Floor2(allocation)
        n1 == IF Gt(n0, cash) THEN Floor2(cash) ELSE n0
        capped == Gt(n0, cash)
    IN  IF Le(allocation, Num(0))
        THEN [skip |-> TRUE, reason |-> "allocation_skipped", capped |-> FALSE,
              cash |-> cash, notional |-> allocation]
        ELSE IF Lt(n0, Num(MIN_NOTIONAL))
        THEN [skip |-> TRUE, reason |-> "skip_small_order", capped |-> FALSE,
              cash |-> cash, notional |-> n0]
        ELSE IF Lt(n1, Num(MIN_NOTIONAL))
        THEN [skip |-> TRUE, reason |-> "skip_small_order", capped |-> capped,
              cash |-> cash, notional |-> n1]
        ELSE [skip |-> FALSE, reason |-> "none", capped |-> capped,
              cash |-> cash, notional |-> n1]

----------------------------------------------------------------------------
(* Bounds of the model *)

\* placeOrder (and placeLimitSell) invocations that may be in flight at once
MaxInvocations == 2
\* placeOrder invocations in one behaviour
MaxCalls == 2
\* clock steps in one behaviour, each of TickMs milliseconds
MaxTicks == 2
TickMs == 900000

\* the tokens of the list the model follows
ALPACA_TOKENS == <<"BTCUSD", "ETHUSD">>
Symbols == {ALPACA_TOKENS[i] : i \in 1..Len(ALPACA_TOKENS)}
Slots == 1..MaxInvocations
StartTime == TickMs

\* prices the feed may quote, slopes the trend indicator may give
Prices == {100 * Dollar, 101 * Dollar}
EntryPrices == {100 * Dollar}
Slopes == {0, SLOPE_THRESHOLD}

\* account reads the backend may answer with
AcctOf(nmbp, bp, cash, equity, pv) ==
    [non_marginable_buying_power |-> nmbp, buying_power |-> bp, cash |-> cash,
     equity |-> equity, portfolio_value |-> pv]
Accounts ==
    { AcctOf(Field(100 * Dollar), Absent, Absent, Field(100 * Dollar), Absent),
      AcctOf(Field(50 * Cent), Absent, Absent, Field(100 * Dollar), Absent),
      AcctOf(Field(100 * Dollar), Absent, Absent, NonNumeric, Absent) }

AnyAccount == CHOOSE a \in Accounts : TRUE
AnyPrice == CHOOSE p \in Prices : TRUE

----------------------------------------------------------------------------
VARIABLES
    system,              \* which program runs: the app's entry engine ("app"),
                         \* the entry engine with verifyLimitBuyFilled
                         \* ("verify"), the app with its refresh passes
                         \* ("refresh"), the same while positions are held and
                         \* closed ("hold"), one refresh pass over the whole
                         \* token list ("loop"), the backend's trade flows
                         \* ("server"),
                         \* the sizing functions alone ("sizing"), or the
                         \* price and quantity arithmetic alone ("pricing")
    srv,                 \* the backend's trade flow
    sized,               \* a sizing or pricing function's inputs and result
    ui,                  \* the App component: isLoading and the loadData passes
    now,                 \* Date.now()
    lastTradeTime,       \* let lastTradeTime = {}: symbol -> ms, 0 when unset
    positionMeta,        \* let positionMeta = {}
    pendingLimitOrders,  \* let pendingLimitOrders = {}
    orders,              \* the brokerage's orders, by id
    position,            \* the brokerage's positions, by symbol
    inv,                 \* the placeOrder invocations, by slot
    started,             \* placeOrder invocations so far
    sells,               \* the placeLimitSell invocations, by slot
    verify,              \* the verifyLimitBuyFilled invocations, by slot
    timers,              \* setTimeout callbacks not yet run, by symbol
    log                  \* what logTradeAction appended in the last step

others == <<system, srv, sized, ui, verify>>

\* const [tracked] = useState(ALPACA_TOKENS): the whole list where the loop of
\* a refresh pass is studied ("loop"), its first token elsewhere
tracked == IF system = "loop" THEN ALPACA_TOKENS ELSE <<ALPACA_TOKENS[1]>>
Watched == {tracked[i] : i \in 1..Len(tracked)}

appVars == <<now, lastTradeTime, positionMeta, pendingLimitOrders, orders,
             position, inv, started, sells, timers, log>>

NoMeta == [present |-> FALSE, entryTimestamp |-> 0, entryPrice |-> 0]
NoPending == [present |-> FALSE, orderId |-> 0, notional |-> Num(0), createdAt |-> 0]
NoPosition == [qty |-> 0, basis |-> 0]

\* One placeOrder invocation: its place in the code (pc), its arguments and
\* locals, and a record of what it did so far: the reads it issued, the
\* invocations for the same symbol it overlapped with (by number), whether a
\* guard read failed.
IdleInv ==
    [pc |-> "idle", n |-> 0, symbol |-> tracked[1], now |-> 0, slope |-> 0,
     reads |-> <<>>, price |-> 0, notional |-> Num(0), limit_price |-> 0,
     qty |-> Num(0), peers |-> {}, readFailed |-> FALSE]

\* a parameter left at its default null, or given a number
NullNumber == [null |-> TRUE, nan |-> FALSE, v |-> 0]
Given(n) == [null |-> FALSE, nan |-> n.nan, v |-> n.v]

\* One placeLimitSell invocation: its place in the code, its arguments
\* (currentPrice as 0 when null: both are falsy) and its locals
IdleSell ==
    [pc |-> "idle", symbol |-> tracked[1], currentPrice |-> 0,
     currentRsi |-> NullNumber, qty |-> 0, basis |-> 0]

\* One verifyLimitBuyFilled invocation: its place in the code and the
\* pending entry it read at the start (const pending), then the live price
IdleVerify ==
    [pc |-> "idle", symbol |-> tracked[1], orderId |-> 0, notional |-> Num(0),
     price |-> 0]

Event(type, symbol) == <<type, symbol>>

InitApp ==
    /\ now = StartTime
    /\ lastTradeTime = [s \in Symbols |-> 0]
    /\ positionMeta = [s \in Symbols |-> NoMeta]
    /\ pendingLimitOrders = [s \in Symbols |-> NoPending]
    /\ orders = <<>>
    /\ position = [s \in Symbols |-> NoPosition]
    /\ inv = [k \in Slots |-> IdleInv]
    /\ started = 0
    /\ sells = [k \in Slots |-> IdleSell]
    /\ verify = [k \in Slots |-> IdleVerify]
    /\ timers = [s \in Symbols |-> [sell |-> 0, verify |-> 0]]
    /\ log = <<>>

----------------------------------------------------------------------------
(* The brokerage, as the backend routes expose it *)

OpenStatus == {"new", "partially_filled"}

\* GET /orders?status=open&symbols=s
OpenOrdersOf(s) ==
    {i \in 1..Len(orders) : orders[i].symbol = s /\ orders[i].status \in OpenStatus}

\* GET /positions/s: qty_available
Available(s) == position[s].qty

InFlight(k) == inv[k].pc # "idle"

FreeSlot(k) == /\ ~InFlight(k)
               /\ \A j \in Slots : j < k => InFlight(j)

\* logTradeAction, called once per event.  The log is append-only and never
\* read back by the program; the model keeps the part the last step appended.
Log(events) == log' = events

----------------------------------------------------------------------------
(* placeOrder (App.js 626-834) *)

\* lastTradeTime[symbol] && now - lastTradeTime[symbol] < COOL_DOWN_MS
CooldownActive(s, t) == lastTradeTime[s] # 0 /\ t - lastTradeTime[s] < COOL_DOWN_MS

\* held && held.available * held.basis > 1
HeldAboveMinimum(held) ==
    held.present /\ held.basis > 0 /\ ProductAboveOne(held.available, held.basis)

\* parseFloat((price * BUY_LIMIT_BUFFER).toFixed(5)), 0.999 as 999 / 1000
BUY_LIMIT_BUFFER == 999
\* LimitPrice with the buffer applied above the reference price
LimitPriceAbove(price) == (((price \div 1000) * (2000 - BUY_LIMIT_BUFFER) + 5) \div 10) * 10
LimitPrice(price) == RoundedProduct(price, BUY_LIMIT_BUFFER, 1000, 10)

\* OrderQty rounding the quotient up instead of down
OrderQtyCeil(notional, limit_price) ==
    IF notional.nan THEN NaN
    ELSE Num(ScaledDiv(notional.v, limit_price, 6) + 1)

\* Math.floor((notional / limit_price) * 1e6) / 1e6, in millionths of a coin
OrderQty(notional, limit_price) ==
    IF notional.nan THEN NaN
    ELSE Num(ScaledDiv(notional.v, limit_price, 6))

\* Entry: the cooldown guard runs before the first await; when it passes, the
\* open-orders read is issued.  before is what the caller logged in the same
\* stretch of code.
PlaceOrderEnter(k, s, slope, before) ==
    /\ ~InFlight(k)
    /\ started < MaxCalls
    /\ started' = started + 1
    /\ LET n == started + 1
           peers == {j \in Slots : InFlight(j) /\ inv[j].symbol = s}
       IN  IF CooldownActive(s, now)
           THEN /\ UNCHANGED inv
                /\ Log(before \o <<Event("cooldown_skip", s)>>)
           ELSE /\ inv' = [j \in Slots |->
                             IF j = k
                             THEN [IdleInv EXCEPT
                                     !.pc = "openOrders", !.n = n, !.symbol = s,
                                     !.now = now, !.slope = slope,
                                     !.reads = <<"orders">>,
                                     !.peers = {inv[i].n : i \in peers}]
                             ELSE IF j \in peers
                                  THEN [inv[j] EXCEPT !.peers = @ \cup {n}]
                                  ELSE inv[j]]
                /\ Log(before)
    /\ UNCHANGED <<now, lastTradeTime, positionMeta, pendingLimitOrders,
                   orders, position, sells, timers>>

\* An invocation by a caller the model does not follow: a refresh pass's
\* automatic entry (isManual = FALSE) or the Manual BUY button (TRUE).
PlaceOrderStart(k, s, isManual, slope) ==
    /\ system \in {"app", "verify"}
    /\ FreeSlot(k)
    /\ PlaceOrderEnter(k, s, slope, <<>>)
    /\ UNCHANGED others

\* getOpenOrders (App.js 283-299): a non-OK answer and a thrown error both
\* give [], "so that the trade logic continues"
getOpenOrders(s, outcome) == IF outcome = "ok" THEN OpenOrdersOf(s) ELSE {}

\* PlaceOrderOpenOrders without the return: the position read is issued
\* whatever the open-orders read gave
PlaceOrderOpenOrdersUnguarded(k, outcome) ==
    /\ inv[k].pc = "openOrders"
    /\ inv' = [inv EXCEPT ![k].pc = "position",
                          ![k].reads = Append(@, "position"),
                          ![k].readFailed = @ \/ outcome # "ok"]
    /\ Log(<<>>)
    /\ UNCHANGED <<others, now, lastTradeTime, positionMeta, pendingLimitOrders,
                   orders, position, started, sells, timers>>

PlaceOrderOpenOrders(k, outcome) ==
    /\ inv[k].pc = "openOrders"
    /\ LET s == inv[k].symbol
           openOrders == getOpenOrders(s, outcome)
       IN  IF openOrders # {}
           THEN /\ inv' = [inv EXCEPT ![k] = IdleInv]
                /\ Log(<<Event("skip_open_orders", s)>>)
           ELSE /\ inv' = [inv EXCEPT ![k].pc = "position",
                                      ![k].reads = Append(@, "position"),
                                      ![k].readFailed = @ \/ outcome # "ok"]
                /\ Log(<<>>)
    /\ UNCHANGED <<others, now, lastTradeTime, positionMeta, pendingLimitOrders,
                   orders, position, started, sells, timers>>

\* getPositionInfo (App.js 257-277): null when the answer is not OK (the
\* brokerage answers 404 for a symbol that is not held), when the request
\* throws, or when nothing is available
NoHeld == [present |-> FALSE, available |-> 0, basis |-> 0]
getPositionInfo(s, outcome) ==
    IF outcome = "ok" /\ Available(s) > 0
    THEN [present |-> TRUE, available |-> Available(s), basis |-> position[s].basis]
    ELSE NoHeld

\* the answers GET /positions/s can give in the current state
PositionOutcomes(s) ==
    {"error"} \cup (IF position[s].qty > 0 THEN {"ok"} ELSE {"notfound"})

\* PlaceOrderPosition starting the cooldown when it skips a held position
PlaceOrderPositionStamping(k, outcome) ==
    /\ inv[k].pc = "position"
    /\ outcome \in PositionOutcomes(inv[k].symbol)
    /\ LET s == inv[k].symbol
           held == getPositionInfo(s, outcome)
       IN  IF HeldAboveMinimum(held)
           THEN /\ inv' = [inv EXCEPT ![k] = IdleInv]
                /\ Log(<<Event("skip_held_position", s),
                         Event("buy_attempt_skipped", s)>>)
                /\ lastTradeTime' = [lastTradeTime EXCEPT ![s] = now]
           ELSE /\ inv' = [inv EXCEPT ![k].pc = "price",
                                      ![k].reads = Append(@, "price"),
                                      ![k].readFailed = @ \/ outcome = "error"]
                /\ Log(<<Event("buy_attempt", s)>>)
                /\ UNCHANGED lastTradeTime
    /\ UNCHANGED <<others, now, positionMeta, pendingLimitOrders,
                   orders, position, started, sells, timers>>

PlaceOrderPosition(k, outcome) ==
    /\ inv[k].pc = "position"
    /\ outcome \in PositionOutcomes(inv[k].symbol)
    /\ LET s == inv[k].symbol
           held == getPositionInfo(s, outcome)
       IN  IF HeldAboveMinimum(held)
           THEN /\ inv' = [inv EXCEPT ![k] = IdleInv]
                /\ Log(<<Event("skip_held_position", s),
                         Event("buy_attempt_skipped", s)>>)
           ELSE /\ inv' = [inv EXCEPT ![k].pc = "price",
                                      ![k].reads = Append(@, "price"),
                                      ![k].readFailed = @ \/ outcome = "error"]
                /\ Log(<<Event("buy_attempt", s)>>)
    /\ UNCHANGED <<others, now, lastTradeTime, positionMeta, pendingLimitOrders,
                   orders, position, started, sells, timers>>

\* BuyFailure with the cooldown stamped on every attempt instead of on
\* accepted ones only
BuyFailureStamped(k, type) ==
    /\ inv' = [inv EXCEPT ![k] = IdleInv]
    /\ Log(<<Event(type, inv[k].symbol)>>)
    /\ lastTradeTime' = [lastTradeTime EXCEPT ![inv[k].symbol] = inv[k].now]
    /\ UNCHANGED <<positionMeta, pendingLimitOrders, timers>>

\* BuyFailure tracking the failed submission as pending, without an order id
BuyFailureTracked(k, type) ==
    /\ inv' = [inv EXCEPT ![k] = IdleInv]
    /\ Log(<<Event(type, inv[k].symbol)>>)
    /\ pendingLimitOrders' = [pendingLimitOrders EXCEPT ![inv[k].symbol] =
           [present |-> TRUE, orderId |-> 0, notional |-> inv[k].notional,
            createdAt |-> inv[k].now]]
    /\ UNCHANGED <<lastTradeTime, positionMeta, timers>>

\* The catch block and the else branch of the submission result: the
\* failure is logged and nothing else is written.
BuyFailure(k, type) ==
    /\ inv' = [inv EXCEPT ![k] = IdleInv]
    /\ Log(<<Event(type, inv[k].symbol)>>)
    /\ UNCHANGED <<lastTradeTime, positionMeta, pendingLimitOrders, timers>>

\* if (res.ok && result.id): App.js 811-822
BuySuccess(k, id) ==
    LET s == inv[k].symbol
        t == inv[k].now
    IN  /\ inv' = [inv EXCEPT ![k] = IdleInv]
        /\ Log(<<Event("buy_success", s)>>)
        /\ lastTradeTime' = [lastTradeTime EXCEPT ![s] = t]
        /\ positionMeta' = [positionMeta EXCEPT ![s] =
               [present |-> TRUE, entryTimestamp |-> t,
                entryPrice |-> inv[k].limit_price]]
        /\ pendingLimitOrders' = [pendingLimitOrders EXCEPT ![s] =
               [present |-> TRUE, orderId |-> id, notional |-> inv[k].notional,
                createdAt |-> t]]
        /\ timers' = [timers EXCEPT ![s].verify = @ + 1, ![s].sell = @ + 1]

\* the price read: !priceRes.ok, a thrown fetch and !price || isNaN(price)
\* all end in the catch block
PlaceOrderPrice(k, ok, price) ==
    /\ inv[k].pc = "price"
    /\ IF ~ok
       THEN BuyFailure(k, "buy_error")
       ELSE /\ inv' = [inv EXCEPT ![k].pc = "account", ![k].price = price,
                                  ![k].reads = Append(@, "account")]
            /\ Log(<<>>)
            /\ UNCHANGED <<lastTradeTime, positionMeta, pendingLimitOrders,
                           timers>>
    /\ UNCHANGED <<others, now, orders, position, started, sells>>

\* the account read, the sizing and, unless sizing skips, the POST /buy
PlaceOrderAccount(k, ok, acct) ==
    /\ inv[k].pc = "account"
    /\ LET s == inv[k].symbol
           size == AllocationSize(acct, inv[k].slope)
           checked == <<Event("cash_available", s), Event("allocation_check", s),
                        Event("notional_final", s)>>
           cappedLog == IF size.capped
                        THEN <<Event("notional_exceeds_cash", s),
                               Event("notional_capped", s)>>
                        ELSE <<>>
           limit_price == LimitPrice(inv[k].price)
       IN  IF ~ok
           THEN BuyFailure(k, "buy_error")
           ELSE /\ IF size.skip
                   THEN /\ inv' = [inv EXCEPT ![k] = IdleInv]
                        /\ Log(IF size.reason = "allocation_skipped"
                               THEN <<Event("cash_available", s),
                                      Event("allocation_skipped", s)>>
                               ELSE checked \o cappedLog
                                    \o <<Event("skip_small_order", s)>>)
                   ELSE /\ inv' = [inv EXCEPT ![k].pc = "submit",
                                              ![k].reads = Append(@, "submit"),
                                              ![k].notional = size.notional,
                                              ![k].limit_price = limit_price,
                                              ![k].qty = OrderQty(size.notional,
                                                                  limit_price)]
                        /\ Log(checked \o cappedLog
                               \o <<Event("buy_limit_details", s)>>)
                /\ UNCHANGED <<lastTradeTime, positionMeta, pendingLimitOrders,
                               timers>>
    /\ UNCHANGED <<others, now, orders, position, started, sells>>

\* The order POST /buy hands to the brokerage (Backend/index.js 36-52), with
\* a record of who placed it: the invocation's number, the invocations it
\* overlapped with, the time, and whether placeOrder saw it accepted.
EntryOrder(k, acked) ==
    [symbol |-> inv[k].symbol, side |-> "buy", type |-> "limit",
     qty |-> inv[k].qty.v, limit_price |-> inv[k].limit_price,
     status |-> "new", filled |-> 0, at |-> now, by |-> inv[k].n,
     peers |-> inv[k].peers, acked |-> acked]

\* the brokerage takes an order only with a positive quantity
Acceptable(k) == ~inv[k].qty.nan /\ inv[k].qty.v > 0

\* The answer to POST /buy.  "accepted": 200 with the order; "rejected": a
\* non-OK answer; "noid": 200 without an id; "throw": the request fails before
\* the brokerage has the order; "lost": it fails after.
SubmitOutcomes(k) ==
    {"rejected", "noid", "throw"}
        \cup (IF Acceptable(k) THEN {"accepted", "lost"} ELSE {})

PlaceOrderSubmit(k, outcome) ==
    /\ inv[k].pc = "submit"
    /\ outcome \in SubmitOutcomes(k)
    /\ orders' = IF outcome \in {"accepted", "lost"}
                 THEN Append(orders, EntryOrder(k, outcome = "accepted"))
                 ELSE orders
    /\ IF outcome = "accepted"
       THEN BuySuccess(k, Len(orders) + 1)
       ELSE BuyFailure(k, IF outcome \in {"rejected", "noid"}
                          THEN "buy_failed" ELSE "buy_error")
    /\ UNCHANGED <<others, now, position, started, sells>>

----------------------------------------------------------------------------
(* verifyLimitBuyFilled (App.js 336-416), as run by the timer set after an
   accepted buy *)

outside == <<system, srv, sized, ui>>

FreeVerifySlot(j) == /\ verify[j].pc = "idle"
                     /\ \A i \in Slots : i < j => verify[i].pc # "idle"

VerifyDone(j) == verify' = [verify EXCEPT ![j] = IdleVerify]

\* delete pendingLimitOrders[symbol]
DeletePending(s) ==
    pendingLimitOrders' = [pendingLimitOrders EXCEPT ![s] = NoPending]

\* setTimeout(() => verifyLimitBuyFilled(...), REFRESH_INTERVAL_MS * 2) comes
\* due: without a pending entry the function returns, else it reads the order
VerifyStart(j, s) ==
    /\ timers[s].verify > 0
    /\ FreeVerifySlot(j)
    /\ timers' = [timers EXCEPT ![s].verify = @ - 1]
    /\ IF ~pendingLimitOrders[s].present
       THEN UNCHANGED verify
       ELSE verify' = [verify EXCEPT ![j] =
               [IdleVerify EXCEPT !.pc = "status", !.symbol = s,
                                  !.orderId = pendingLimitOrders[s].orderId,
                                  !.notional = pendingLimitOrders[s].notional]]
    /\ Log(<<>>)
    /\ UNCHANGED <<outside, now, lastTradeTime, positionMeta, pendingLimitOrders,
                   orders, position, inv, started, sells>>

\* The answer to GET /orders/:id.  "ok": the order; "error": a non-OK answer
\* with a JSON body, whose status field is undefined; "throw": the request or
\* res.json() throws, and the function returns without a word.
VerifyStatus(j, outcome) ==
    /\ verify[j].pc = "status"
    /\ LET s == verify[j].symbol
       IN  IF outcome = "throw"
           THEN /\ VerifyDone(j)
                /\ UNCHANGED pendingLimitOrders
           ELSE IF outcome = "ok" /\ orders[verify[j].orderId].status = "filled"
           THEN /\ VerifyDone(j)
                /\ DeletePending(s)
           ELSE /\ verify' = [verify EXCEPT ![j].pc = "signal"]
                /\ UNCHANGED pendingLimitOrders
    /\ Log(<<>>)
    /\ UNCHANGED <<outside, now, lastTradeTime, positionMeta, orders, position,
                   inv, started, sells, timers>>

\* The price and history reads and the indicators: signalValid, or a throw
\* into the catch block (ok = FALSE).  Either way of the signal the DELETE of
\* the limit order is sent next.
VerifySignal(j, ok, signalValid, price) ==
    /\ verify[j].pc = "signal"
    /\ IF ~ok
       THEN /\ VerifyDone(j)
            /\ Log(<<Event("buy_retry_error", verify[j].symbol)>>)
       ELSE /\ verify' = [verify EXCEPT
                            ![j].pc = IF signalValid THEN "cancelRetry"
                                      ELSE "cancelLost",
                            ![j].price = price]
            /\ Log(<<>>)
    /\ UNCHANGED <<outside, now, lastTradeTime, positionMeta, pendingLimitOrders,
                   orders, position, inv, started, sells, timers>>

\* The answers DELETE /orders/:id can give (routes 61-70): "ok" cancels an
\* order that is still open; "error" is a non-OK answer (the brokerage
\* refuses to cancel an order that is filled or cancelled already, or fails);
\* "throw" is a request that fails.
CancelOutcomes(id) ==
    {"error", "throw"}
        \cup (IF orders[id].status \in OpenStatus THEN {"ok"} ELSE {})

\* The frontend does not look at the answer of the DELETE: only a throw
\* takes another path.
VerifyCancel(j, outcome) ==
    /\ verify[j].pc \in {"cancelRetry", "cancelLost"}
    /\ outcome \in CancelOutcomes(verify[j].orderId)
    /\ orders' = IF outcome = "ok"
                 THEN [orders EXCEPT ![verify[j].orderId].status = "canceled"]
                 ELSE orders
    /\ LET s == verify[j].symbol
       IN  IF outcome = "throw"
           THEN /\ VerifyDone(j)
                /\ Log(<<Event("buy_retry_error", s)>>)
                /\ UNCHANGED pendingLimitOrders
           ELSE IF verify[j].pc = "cancelLost"
           THEN /\ VerifyDone(j)
                /\ DeletePending(s)
                /\ Log(<<Event("buy_cancel_signal_lost", s)>>)
           ELSE /\ verify' = [verify EXCEPT ![j].pc = "retry"]
                /\ Log(<<>>)
                /\ UNCHANGED pendingLimitOrders
    /\ UNCHANGED <<outside, now, lastTradeTime, positionMeta, position, inv,
                   started, sells, timers>>

\* the body of the retry's POST /buy (App.js 382-388)
RetryOrder(j) ==
    [symbol |-> verify[j].symbol, notional |-> verify[j].notional,
     side |-> "buy", type |-> "market", time_in_force |-> "gtc"]

\* POST /buy (Backend/index.js 36-52) builds the order it forwards from
\* symbol, qty, side, type, time_in_force and limit_price of the body; a field
\* the body does not have is undefined and is left out of the JSON sent on
BuyRoute(body) ==
    LET forwarded == {"symbol", "qty", "side", "type", "time_in_force",
                      "limit_price"} \cap DOMAIN body
    IN  [f \in forwarded |-> body[f]]

\* the brokerage takes an order only with a quantity or a notional, positive
BrokerAccepts(order) ==
    \/ "qty" \in DOMAIN order /\ ~order.qty.nan /\ order.qty.v > 0
    \/ "notional" \in DOMAIN order /\ ~order.notional.nan /\ order.notional.v > 0

\* The answer to the retry's POST /buy: "rejected" is the route's 500 after
\* the brokerage refused the order, "throw" a request that fails; "accepted"
\* and "lost" (accepted, but the answer does not arrive) need an order the
\* brokerage takes.
RetryOutcomes(j) ==
    {"rejected", "throw"}
        \cup (IF BrokerAccepts(BuyRoute(RetryOrder(j)))
              THEN {"accepted", "lost"} ELSE {})

MarketRetryOrder(j, acked) ==
    [symbol |-> verify[j].symbol, side |-> "buy", type |-> "market",
     qty |-> ScaledDiv(verify[j].notional.v, verify[j].price, 6),
     limit_price |-> verify[j].price, status |-> "new", filled |-> 0,
     at |-> now, by |-> 0, peers |-> {}, acked |-> acked]

VerifyRetry(j, outcome) ==
    /\ verify[j].pc = "retry"
    /\ outcome \in RetryOutcomes(j)
    /\ VerifyDone(j)
    /\ orders' = IF outcome \in {"accepted", "lost"}
                 THEN Append(orders, MarketRetryOrder(j, outcome = "accepted"))
                 ELSE orders
    /\ LET s == verify[j].symbol
       IN  IF outcome = "accepted"
           THEN /\ Log(<<Event("buy_retry_market", s)>>)
                /\ lastTradeTime' = [lastTradeTime EXCEPT ![s] = now]
                /\ positionMeta' = [positionMeta EXCEPT ![s] =
                       [present |-> TRUE, entryTimestamp |-> now,
                        entryPrice |-> verify[j].price]]
                /\ DeletePending(s)
                /\ timers' = [timers EXCEPT ![s].sell = @ + 1]
           ELSE /\ Log(<<Event(IF outcome = "rejected" THEN "buy_retry_failed"
                               ELSE "buy_retry_error", s)>>)
                /\ UNCHANGED <<lastTradeTime, positionMeta, pendingLimitOrders,
                               timers>>
    /\ UNCHANGED <<outside, now, position, inv, started, sells>>

VerifyNext ==
    \/ \E j \in Slots, s \in Symbols : VerifyStart(j, s)
    \/ \E j \in Slots, o \in {"ok", "error", "throw"} : VerifyStatus(j, o)
    \/ \E j \in Slots, v \in BOOLEAN, p \in Prices : VerifySignal(j, TRUE, v, p)
    \/ \E j \in Slots : VerifySignal(j, FALSE, FALSE, AnyPrice)
    \/ \E j \in Slots, o \in {"ok", "error", "throw"} : VerifyCancel(j, o)
    \/ \E j \in Slots, o \in {"accepted", "rejected", "throw", "lost"} :
          VerifyRetry(j, o)

----------------------------------------------------------------------------
(* placeLimitSell (App.js 422-618), as run by the 5 s timer after a buy *)

SELL_TARGET_MULTIPLIER == 10015

FreeSellSlot(j) == /\ sells[j].pc = "idle"
                   /\ \A i \in Slots : i < j => sells[i].pc # "idle"

\* setTimeout(() => placeLimitSell(symbol), 5000) comes due: the position
\* read is issued
PlaceLimitSellStart(j, s) ==
    /\ timers[s].sell > 0
    /\ FreeSellSlot(j)
    /\ timers' = [timers EXCEPT ![s].sell = @ - 1]
    /\ sells' = [sells EXCEPT ![j] = [IdleSell EXCEPT !.pc = "position",
                                                      !.symbol = s]]
    /\ Log(<<>>)
    /\ UNCHANGED <<others, now, lastTradeTime, positionMeta, pendingLimitOrders,
                   orders, position, inv, started>>

\* Math.floor(qty * basis * 1e6) / 1e6 < 1
SellNotionalBelowMinimum(qty, basis) == ProductBelowOne(qty, basis)

\* livePrice <= basis * SELL_TARGET_MULTIPLIER, 1.0015 as 1 + 15 / 10000
BelowTarget(livePrice, basis) ==
    livePrice - basis <= (basis * (SELL_TARGET_MULTIPLIER - 10000)) \div 10000

\* const STOP_LOSS_PERCENT = 0.025, in thousandths
STOP_LOSS_PERCENT == 25

\* (Math.floor(livePrice * 1e5) / 1e5).toFixed(5): floored to 1e-5 $
SellLimitPrice(livePrice) == (livePrice \div 10) * 10

\* (basis * (1 - STOP_LOSS_PERCENT)).toFixed(5): rounded to 1e-5 $
StopPrice(basis) == RoundedProduct(basis, 1000 - STOP_LOSS_PERCENT, 1000, 10)

\* closePositionMarket (App.js 301-333), by what it logs.  The request is
\* built with headers: HEADERS, a name App.js never declares: evaluating it
\* throws a ReferenceError inside the try block, before fetch is called, and
\* the catch logs forced_exit_error.  No order reaches the backend and
\* delete positionMeta[symbol], in the branch of an accepted order, is not
\* reached.
closePositionMarket(s, qty) ==
    IF qty <= 0 THEN <<>>
    ELSE <<Event("forced_exit_attempt", s), Event("forced_exit_error", s)>>

Magnitude(x) == IF x < 0 THEN 0 - x ELSE x

\* ageMs > 2 * 60 * 60 * 1000 && priceDiff != null &&
\* Math.abs(priceDiff) < 0.005 && currentRsi != null && currentRsi < 50,
\* with priceDiff = (currentPrice - entryPrice) / entryPrice when both are
\* truthy; 0.005 as 1 / 200
ForcedExitDue(meta, currentPrice, currentRsi, t) ==
    /\ t - meta.entryTimestamp > 2 * 60 * 60 * 1000
    /\ currentPrice # 0
    /\ meta.entryPrice # 0
    /\ Magnitude(currentPrice - meta.entryPrice) * 200 < meta.entryPrice
    /\ ~currentRsi.null
    /\ Lt(currentRsi, Num(50))

\* From the position answer to the price read, or to the end: a skip, or
\* the forced exit of an aged position.  currentPrice and currentRsi are
\* null in a timer's call, so the forced exit is not taken there.
PlaceLimitSellPosition(j, outcome) ==
    /\ sells[j].pc = "position"
    /\ outcome \in PositionOutcomes(sells[j].symbol)
    /\ LET s == sells[j].symbol
           pos == getPositionInfo(s, outcome)
       IN  IF ~pos.present \/ pos.basis <= 0
           THEN /\ sells' = [sells EXCEPT ![j] = IdleSell]
                /\ Log(<<Event("sell_skip_reason", s)>>)
                /\ UNCHANGED positionMeta
           ELSE /\ positionMeta' =
                       IF positionMeta[s].present THEN positionMeta
                       ELSE [positionMeta EXCEPT ![s] =
                               [present |-> TRUE, entryTimestamp |-> now,
                                entryPrice |-> pos.basis]]
                /\ IF ForcedExitDue(positionMeta'[s], sells[j].currentPrice,
                                    sells[j].currentRsi, now)
                   THEN /\ sells' = [sells EXCEPT ![j] = IdleSell]
                        /\ Log(closePositionMarket(s, pos.available)
                                 \o <<Event("forced_exit_age", s)>>)
                   ELSE IF SellNotionalBelowMinimum(pos.available, pos.basis)
                   THEN /\ sells' = [sells EXCEPT ![j] = IdleSell]
                        /\ Log(<<Event("sell_qty_confirm", s), Event("sell_skip", s),
                                 Event("sell_skip_reason", s)>>)
                   ELSE /\ sells' = [sells EXCEPT ![j] =
                               [IdleSell EXCEPT !.pc = "price", !.symbol = s,
                                                !.qty = pos.available,
                                                !.basis = pos.basis]]
                        /\ Log(<<Event("sell_qty_confirm", s)>>)
    /\ UNCHANGED <<others, now, lastTradeTime, pendingLimitOrders, orders,
                   position, inv, started, timers>>

\* prices the feed may quote to placeLimitSell: those of the entries, and one
\* more than 2.5% below them
QuotedPrices == Prices \cup {97 * Dollar}

\* placeLimitSell submitting the stop-loss after the limit sell has failed
PlaceLimitSellPriceStopAnyway(j, ok, livePrice) ==
    /\ sells[j].pc = "price"
    /\ sells' = [sells EXCEPT ![j] = IdleSell]
    /\ LET s == sells[j].symbol
       IN  IF ~ok \/ BelowTarget(livePrice, sells[j].basis)
           THEN /\ Log(<<Event("sell_skip_reason", s)>>)
                /\ UNCHANGED orders
           ELSE /\ Log(<<Event("sell_attempt", s), Event("sell_error", s)>>)
                /\ orders' = Append(orders,
                       [symbol |-> s, side |-> "sell", type |-> "stop",
                        qty |-> sells[j].qty, limit_price |-> sells[j].basis,
                        status |-> "new", filled |-> 0, at |-> now, by |-> 0,
                        peers |-> {}, acked |-> TRUE])
    /\ UNCHANGED <<others, now, lastTradeTime, positionMeta, pendingLimitOrders,
                   position, inv, started, timers>>

\* a sell order of placeLimitSell as the brokerage would hold it
AppSellOrder(j, type, price) ==
    [symbol |-> sells[j].symbol, side |-> "sell", type |-> type,
     qty |-> sells[j].qty, limit_price |-> price, status |-> "new",
     filled |-> 0, at |-> now, by |-> 0, peers |-> {}, acked |-> TRUE]

\* placeLimitSell with its requests going through: the limit sell and, after
\* it, the stop-loss, each for the whole quantity
PlaceLimitSellPriceBoth(j, ok, livePrice) ==
    /\ sells[j].pc = "price"
    /\ sells' = [sells EXCEPT ![j] = IdleSell]
    /\ LET s == sells[j].symbol
       IN  IF ~ok \/ BelowTarget(livePrice, sells[j].basis)
           THEN /\ Log(<<Event("sell_skip_reason", s)>>)
                /\ UNCHANGED orders
           ELSE /\ Log(<<Event("sell_attempt", s), Event("sell_success", s),
                         Event("stop_success", s)>>)
                /\ orders' = orders
                       \o <<AppSellOrder(j, "limit", SellLimitPrice(livePrice)),
                            AppSellOrder(j, "stop", StopPrice(sells[j].basis))>>
    /\ UNCHANGED <<others, now, lastTradeTime, positionMeta, pendingLimitOrders,
                   position, inv, started, timers>>

\* placeLimitSell with its limit sell going through
PlaceLimitSellPriceSending(j, ok, livePrice) ==
    /\ sells[j].pc = "price"
    /\ sells' = [sells EXCEPT ![j] = IdleSell]
    /\ LET s == sells[j].symbol
       IN  IF ~ok \/ BelowTarget(livePrice, sells[j].basis)
           THEN /\ Log(<<Event("sell_skip_reason", s)>>)
                /\ UNCHANGED orders
           ELSE /\ Log(<<Event("sell_attempt", s), Event("sell_success", s)>>)
                /\ orders' = Append(orders,
                       AppSellOrder(j, "limit", SellLimitPrice(livePrice)))
    /\ UNCHANGED <<others, now, lastTradeTime, positionMeta, pendingLimitOrders,
                   position, inv, started, timers>>

\* From the price answer to the end.  The sell request is built with
\* headers: HEADERS, a name App.js never declares: evaluating it throws a
\* ReferenceError inside the try block, before fetch is called, and the catch
\* logs sell_error.  No sell order reaches the backend.
PlaceLimitSellPrice(j, ok, livePrice) ==
    /\ sells[j].pc = "price"
    /\ sells' = [sells EXCEPT ![j] = IdleSell]
    /\ LET s == sells[j].symbol
       IN  IF ~ok \/ BelowTarget(livePrice, sells[j].basis)
           THEN Log(<<Event("sell_skip_reason", s)>>)
           ELSE Log(<<Event("sell_attempt", s), Event("sell_error", s)>>)
    /\ UNCHANGED <<others, now, lastTradeTime, positionMeta, pendingLimitOrders,
                   orders, position, inv, started, timers>>

----------------------------------------------------------------------------
(* The environment: the brokerage's matching engine and the clock *)

\* avg_entry_price after buying delta more at price px
AvgEntryPrice(q, basis, delta, px) ==
    IF q = 0 \/ basis = px THEN px
    ELSE basis + ((delta \div 1000) * (px - basis)) \div ((q + delta) \div 1000)

Filled(i, amount) ==
    LET o == orders[i]
        s == o.symbol
        delta == amount - o.filled
        q == position[s].qty
    IN  /\ orders' = [orders EXCEPT ![i].filled = amount,
                                    ![i].status = IF amount = o.qty THEN "filled"
                                                  ELSE "partially_filled"]
        /\ position' = [position EXCEPT ![s] =
               [qty |-> q + delta,
                basis |-> AvgEntryPrice(q, position[s].basis, delta, o.limit_price)]]

BrokerFill(i) ==
    /\ orders[i].status \in OpenStatus
    /\ orders[i].side = "buy"
    /\ Filled(i, orders[i].qty)
    /\ Log(<<>>)
    /\ UNCHANGED <<others, now, lastTradeTime, positionMeta, pendingLimitOrders,
                   inv, started, sells, timers>>

BrokerPartialFill(i) ==
    /\ orders[i].status = "new"
    /\ orders[i].side = "buy"
    /\ orders[i].qty \div 2 > 0
    /\ Filled(i, orders[i].qty \div 2)
    /\ Log(<<>>)
    /\ UNCHANGED <<others, now, lastTradeTime, positionMeta, pendingLimitOrders,
                   inv, started, sells, timers>>

\* a position is closed at the brokerage: an exit order placed for it from
\* outside the app (the backend's flows, the brokerage's own screens) fills
BrokerExit(s) ==
    /\ position[s].qty > 0
    /\ position' = [position EXCEPT ![s] = NoPosition]
    /\ Log(<<>>)
    /\ UNCHANGED <<others, now, lastTradeTime, positionMeta, pendingLimitOrders,
                   orders, inv, started, sells, timers>>

\* hours pass while the app keeps running
MaxHolds == 1
HoldMs == 10800000
Hold ==
    /\ now < StartTime + MaxHolds * HoldMs
    /\ now' = now + HoldMs
    /\ Log(<<>>)
    /\ UNCHANGED <<others, lastTradeTime, positionMeta, pendingLimitOrders,
                   orders, position, inv, started, sells, timers>>

Tick ==
    /\ system \in {"app", "verify"}
    /\ now < StartTime + MaxTicks * TickMs
    /\ now' = now + TickMs
    /\ Log(<<>>)
    /\ UNCHANGED <<others, lastTradeTime, positionMeta, pendingLimitOrders,
                   orders, position, inv, started, sells, timers>>

----------------------------------------------------------------------------
----------------------------------------------------------------------------
(* The backend's trade flows (trade.js: placeLimitBuyThenSell 45-99,
   placeMarketBuyThenSell 138-217, and placeMarketBuyThenSell of the later
   copy, 390-498) *)

\* const MIN_ORDER_NOTIONAL = 1 (dollar)
MIN_ORDER_NOTIONAL == Dollar
\* FEE_BUFFER + TARGET_PROFIT = 0.0025 + 0.0005, in thousandths
TOTAL_MARKUP == 3
\* for (let i = 0; i < 20; i++)
POLL_ATTEMPTS == 20
\* portfolioValue * 0.1, in hundredths
PORTFOLIO_FRACTION == 10

\* getAccountInfo: fields that do not parse count as 0
getAccountInfo(acct) ==
    LET OrZero(x) == IF isNaN(x) THEN Num(0) ELSE x
    IN  [portfolioValue |-> OrZero(parseFloat(acct.portfolio_value)),
         buyingPower |-> OrZero(parseFloat(acct.buying_power)),
         cash |-> OrZero(parseFloat(acct.cash))]

\* roundQty(notional / price), in millionths of a coin
roundQty(notional, price) == Num(ScaledDiv(notional.v, price, 6))

\* roundPrice(avgPrice * (1 + TOTAL_MARKUP)): toFixed(2) rounds to the cent
SellPrice(avgPrice) == RoundedProduct(avgPrice, 1000 + TOTAL_MARKUP, 1000, Cent)

\* the same with the roundPrice of the module's later copy: toFixed(6)
SellPrice6(avgPrice) == RoundedProduct(avgPrice, 1000 + TOTAL_MARKUP, 1000, 1)

\* the sizing of placeMarketBuyThenSell (144-157): [skip, notional, qty]
MarketBuySize(acct, price) ==
    LET account == getAccountInfo(acct)
        calculatedAllocation == MulPct(account.portfolioValue, PORTFOLIO_FRACTION)
        notional == MathMin(calculatedAllocation, account.cash)
        qty == roundQty(notional, price)
    IN  IF Lt(notional, Num(MIN_ORDER_NOTIONAL))
        THEN [skip |-> TRUE, notional |-> notional, qty |-> Num(0)]
        ELSE IF Le(qty, Num(0))
        THEN [skip |-> TRUE, notional |-> notional, qty |-> qty]
        ELSE [skip |-> FALSE, notional |-> notional, qty |-> qty]

IdleSrv ==
    [pc |-> "idle", flow |-> "none", symbol |-> tracked[1], qty |-> 0,
     limitPrice |-> 0, i |-> 0, buyId |-> 0, result |-> "none",
     gets |-> 0, slept |-> 0, status |-> "none"]

\* what the flows are called with, and the accounts the brokerage may report
ServerQtys == {100 * 1000}
ServerAccounts ==
    { AcctOf(Absent, Field(200 * Dollar), Field(100 * Dollar), Absent,
             Field(100 * Dollar)),
      AcctOf(Absent, Field(200 * Dollar), Field(50 * Cent), Absent,
             Field(100 * Dollar)),
      AcctOf(Absent, Field(200 * Dollar), Field(50 * Cent), Absent, NonNumeric) }

ServerOrder(side, type, qty, price) ==
    [symbol |-> srv.symbol, side |-> side, type |-> type, qty |-> qty,
     limit_price |-> price, status |-> "new", filled |-> 0, at |-> now,
     by |-> 0, peers |-> {}, acked |-> TRUE]

ServerUnchanged ==
    UNCHANGED <<system, sized, ui, verify, now, lastTradeTime, positionMeta,
                pendingLimitOrders, inv, started, sells, timers>>

\* the flow ends: return (with the result) or throw
Returned(result) == srv' = [srv EXCEPT !.pc = "returned", !.result = result]
Threw(result) == srv' = [srv EXCEPT !.pc = "threw", !.result = result]

placeLimitBuyThenSell(symbol, qty, limitPrice) ==
    /\ system = "server"
    /\ srv.pc = "idle"
    /\ srv' = [IdleSrv EXCEPT !.pc = "buy", !.flow = "limit", !.symbol = symbol,
                              !.qty = qty, !.limitPrice = limitPrice]
    /\ Log(<<>>)
    /\ UNCHANGED <<orders, position>>
    /\ ServerUnchanged

placeMarketBuyThenSell(symbol) ==
    /\ system = "server"
    /\ srv.pc = "idle"
    /\ srv' = [IdleSrv EXCEPT !.pc = "quote", !.flow = "market", !.symbol = symbol]
    /\ Log(<<>>)
    /\ UNCHANGED <<orders, position>>
    /\ ServerUnchanged

\* placeMarketBuyThenSell of the module's later copy (390-498): the same
\* flow, its buy retried once inline
placeMarketBuyThenSellRetrying(symbol) ==
    /\ system = "server"
    /\ srv.pc = "idle"
    /\ srv' = [IdleSrv EXCEPT !.pc = "quote", !.flow = "retrying", !.symbol = symbol]
    /\ Log(<<>>)
    /\ UNCHANGED <<orders, position>>
    /\ ServerUnchanged

\* Promise.all([getLatestPrice, getAccountInfo]) settles; then the sizing
MarketBuyQuote(ok, price, acct) ==
    /\ srv.pc = "quote"
    /\ LET size == MarketBuySize(acct, price)
       IN  IF ~ok THEN Threw("error")
           ELSE IF size.skip THEN Returned("skipped")
           ELSE srv' = [srv EXCEPT !.pc = "buy", !.qty = size.qty.v,
                                   !.limitPrice = price]
    /\ Log(<<>>)
    /\ UNCHANGED <<orders, position>>
    /\ ServerUnchanged

\* what axios.post of an order may come to: the brokerage accepts the order
\* and answers; it refuses it, or the request does not reach it; or it
\* accepts the order and the answer is lost on the way back (a timeout, a
\* connection reset), which axios reports as a failure like the others
PostOutcomes == {"accepted", "rejected", "lost"}

\* The buy of the later copy (414-450): axios.post in a try block; every
\* failure is caught, and after sleep(2000) the same order is posted again.
ServerBuyFirst(outcome) ==
    /\ srv.pc = "buy"
    /\ srv.flow = "retrying"
    /\ LET order == ServerOrder("buy", "market", srv.qty, srv.limitPrice)
       IN  CASE outcome = "accepted" ->
                  /\ orders' = Append(orders, order)
                  /\ srv' = [srv EXCEPT !.pc = "poll", !.buyId = Len(orders) + 1,
                                        !.status = "new"]
             [] outcome = "lost" ->
                  /\ orders' = Append(orders, [order EXCEPT !.acked = FALSE])
                  /\ srv' = [srv EXCEPT !.pc = "retry"]
             [] outcome = "rejected" ->
                  /\ UNCHANGED orders
                  /\ srv' = [srv EXCEPT !.pc = "retry"]
    /\ Log(<<>>)
    /\ UNCHANGED position
    /\ ServerUnchanged

\* the second attempt: a failure is rethrown (throw retryErr)
ServerBuyRetry(outcome) ==
    /\ srv.pc = "retry"
    /\ LET order == ServerOrder("buy", "market", srv.qty, srv.limitPrice)
       IN  CASE outcome = "accepted" ->
                  /\ orders' = Append(orders, order)
                  /\ srv' = [srv EXCEPT !.pc = "poll", !.buyId = Len(orders) + 1,
                                        !.status = "new"]
             [] outcome = "lost" ->
                  /\ orders' = Append(orders, [order EXCEPT !.acked = FALSE])
                  /\ Threw("error")
             [] outcome = "rejected" ->
                  /\ UNCHANGED orders
                  /\ Threw("error")
    /\ Log(<<>>)
    /\ UNCHANGED position
    /\ ServerUnchanged

\* axios.post of the buy order: a failure throws out of the flow
ServerBuy(ok) ==
    /\ srv.pc = "buy"
    /\ srv.flow # "retrying"
    /\ IF ok
       THEN /\ orders' = Append(orders,
                   ServerOrder("buy", IF srv.flow = "limit" THEN "limit" ELSE "market",
                               srv.qty, srv.limitPrice))
            /\ srv' = [srv EXCEPT !.pc = "poll", !.buyId = Len(orders) + 1,
                                  !.status = "new"]
       ELSE /\ Threw("error")
            /\ UNCHANGED orders
    /\ Log(<<>>)
    /\ UNCHANGED position
    /\ ServerUnchanged

\* IsFilled taking any fill for the whole order
IsFilledInPart(order) == order.filled > 0

\* filledOrder.status === 'filled'
IsFilled(order) == order.status = "filled"

\* await sleep(3000) between two reads of the order
POLL_SLEEP_MS == 3000

\* the poll loop without its ceiling of POLL_ATTEMPTS turns
ServerPollUnbounded(ok) ==
    /\ srv.pc = "poll"
    /\ LET read == [srv EXCEPT !.gets = @ + 1]
           seen == [read EXCEPT !.status = orders[srv.buyId].status]
       IN  IF ~ok THEN srv' = [read EXCEPT !.pc = "threw", !.result = "error"]
           ELSE IF IsFilled(orders[srv.buyId]) THEN srv' = [seen EXCEPT !.pc = "sell"]
           ELSE srv' = [seen EXCEPT !.i = @ + 1, !.slept = @ + POLL_SLEEP_MS]
    /\ Log(<<>>)
    /\ UNCHANGED <<orders, position>>
    /\ ServerUnchanged

\* One turn of the poll loop: the read, the check and, when the order is not
\* filled, the sleep.  gets counts the reads sent, slept the time slept, and
\* status is filledOrder.status as last read.  After POLL_ATTEMPTS turns the
\* flow throws 'Buy order not filled in time'.
ServerPoll(ok) ==
    /\ srv.pc = "poll"
    /\ LET read == [srv EXCEPT !.gets = @ + 1]
           seen == [read EXCEPT !.status = orders[srv.buyId].status]
           slept == [seen EXCEPT !.i = @ + 1, !.slept = @ + POLL_SLEEP_MS]
       IN  IF ~ok THEN srv' = [read EXCEPT !.pc = "threw", !.result = "error"]
           ELSE IF IsFilled(orders[srv.buyId]) THEN srv' = [seen EXCEPT !.pc = "sell"]
           ELSE IF slept.i < POLL_ATTEMPTS THEN srv' = slept
           ELSE srv' = [slept EXCEPT !.pc = "threw", !.result = "not_filled"]
    /\ Log(<<>>)
    /\ UNCHANGED <<orders, position>>
    /\ ServerUnchanged

\* a sell whose failure is thrown to the caller by every flow
ServerSellThrowing(ok) ==
    /\ srv.pc = "sell"
    /\ LET buy == orders[srv.buyId]
       IN  IF ok
           THEN /\ orders' = Append(orders,
                       ServerOrder("sell", "limit", buy.filled,
                                   SellPrice(buy.limit_price)))
                /\ Returned("sold")
           ELSE /\ UNCHANGED orders
                /\ Threw("error")
    /\ Log(<<>>)
    /\ UNCHANGED position
    /\ ServerUnchanged

\* POST /trade (Backend/index.js 25-34): res.json(result) for a call that
\* returned, res.status(500) for one that threw; 0 while the call runs
TradeStatus ==
    CASE srv.pc = "returned" -> 200
      [] srv.pc = "threw" -> 500
      [] OTHER -> 0

\* the sell at the marked-up price, for the quantity the buy filled.  A
\* failure throws out of placeLimitBuyThenSell and is caught and returned as
\* sellError by placeMarketBuyThenSell.
ServerSell(ok) ==
    /\ srv.pc = "sell"
    /\ LET buy == orders[srv.buyId]
       IN  IF ok
           THEN /\ orders' = Append(orders,
                       ServerOrder("sell", "limit", buy.filled,
                                   IF srv.flow = "retrying"
                                   THEN SellPrice6(buy.limit_price)
                                   ELSE SellPrice(buy.limit_price)))
                /\ Returned("sold")
           ELSE /\ UNCHANGED orders
                /\ IF srv.flow = "limit" THEN Threw("error")
                   ELSE Returned("sellError")
    /\ Log(<<>>)
    /\ UNCHANGED position
    /\ ServerUnchanged

\* the brokerage cancels, rejects or expires an order that is still open
BrokerCancel(i) ==
    /\ system = "server"
    /\ orders[i].status \in OpenStatus
    /\ orders' = [orders EXCEPT ![i].status = "canceled"]
    /\ Log(<<>>)
    /\ UNCHANGED <<others, now, lastTradeTime, positionMeta, pendingLimitOrders,
                   position, inv, started, sells, timers>>

ServerNext ==
    \/ \E s \in Watched, q \in ServerQtys, p \in EntryPrices :
          placeLimitBuyThenSell(s, q, p)
    \/ \E s \in Watched : placeMarketBuyThenSell(s)
    \/ \E s \in Watched : placeMarketBuyThenSellRetrying(s)
    \/ \E o \in PostOutcomes : ServerBuyFirst(o)
    \/ \E o \in PostOutcomes : ServerBuyRetry(o)
    \/ \E p \in Prices, a \in ServerAccounts : MarketBuyQuote(TRUE, p, a)
    \/ MarketBuyQuote(FALSE, AnyPrice, AnyAccount)
    \/ \E ok \in BOOLEAN : ServerBuy(ok)
    \/ \E ok \in BOOLEAN : ServerPoll(ok)
    \/ \E ok \in BOOLEAN : ServerSell(ok)
    \/ \E i \in 1..Len(orders) : BrokerCancel(i)

----------------------------------------------------------------------------
(* The refresh passes (App.js: loadData 839-994, its triggers 998-1018) *)

\* loadData invocations in one behaviour
MaxPasses == 2

\* One loadData pass: its place in the code, the index of the token it is
\* at, that token's signal, and of the tokens pushed to results so far, the
\* indexes of those whose token.error is set
IdlePass ==
    [pc |-> "idle", idx |-> 0, entryReady |-> FALSE, slope |-> 0, errors |-> {}]

\* isLoading is the component's state; rendered is the value of isLoading in
\* the render that was committed last, which is what the loadData of that
\* render reads.
IdleUi ==
    [isLoading |-> FALSE, rendered |-> FALSE, mounted |-> FALSE, calls |-> 0,
     pass |-> [k \in Slots |-> IdlePass]]

\* the part of a pass that works symbol by symbol
LoopPcs == {"symbol", "sell", "order"}
InLoop(k) == ui.pass[k].pc \in LoopPcs

FreePass(k) == /\ ui.pass[k].pc = "idle"
               /\ \A j \in Slots : j < k => ui.pass[j].pc # "idle"

\* const [isLoading, setIsLoading] = useState(false): the first render's value
FirstRenderIsLoading == FALSE

\* setInterval(loadData, REFRESH_INTERVAL_MS) runs in an effect with no
\* dependencies: the timer keeps calling the loadData of the first render
IntervalIsLoading == FirstRenderIsLoading

RefreshUnchanged ==
    UNCHANGED <<system, srv, sized, verify, now, lastTradeTime, positionMeta,
                pendingLimitOrders, orders, position, inv, started, sells, timers>>

\* loadData up to its first await, with isLoading as its closure holds it
loadData(k, isLoading, mounted) ==
    /\ system \in {"refresh", "hold", "loop"}
    /\ ui.calls < MaxPasses
    /\ IF isLoading
       THEN /\ ui' = [ui EXCEPT !.calls = @ + 1, !.mounted = mounted]
            /\ Log(<<>>)
       ELSE /\ FreePass(k)
            /\ ui' = [ui EXCEPT !.calls = @ + 1, !.mounted = mounted,
                                !.isLoading = TRUE,
                                !.pass[k] = [IdlePass EXCEPT !.pc = "account"]]
            /\ Log(<<Event("refresh", "all")>>)
    /\ RefreshUnchanged

\* useEffect(() => { loadData(); }, [])
Mount(k) ==
    /\ ~ui.mounted
    /\ loadData(k, FirstRenderIsLoading, TRUE)

\* the interval timer fires
IntervalFires(k) ==
    /\ ui.mounted
    /\ loadData(k, IntervalIsLoading, TRUE)

\* pull-to-refresh: onRefresh of the render committed last
onRefresh(k) ==
    /\ ui.mounted
    /\ loadData(k, ui.rendered, TRUE)

\* React commits a render with the current state
Render ==
    /\ system \in {"refresh", "hold", "loop"}
    /\ ui.rendered # ui.isLoading
    /\ ui' = [ui EXCEPT !.rendered = ui.isLoading]
    /\ Log(<<>>)
    /\ RefreshUnchanged

\* the account read of a pass; a failure is caught and logged to the console
PassAccount(k) ==
    /\ ui.pass[k].pc = "account"
    /\ ui' = [ui EXCEPT !.pass[k].pc = "symbol", !.pass[k].idx = 1]
    /\ Log(<<>>)
    /\ RefreshUnchanged

\* results.push(token): the pass moves to the next tracked symbol, or ends
\* with setData(results) and setIsLoading(false)
Advance(k, failed) ==
    LET errors == IF failed THEN ui.pass[k].errors \cup {ui.pass[k].idx}
                  ELSE ui.pass[k].errors
    IN  IF ui.pass[k].idx < Len(tracked)
        THEN ui' = [ui EXCEPT !.pass[k] = [IdlePass EXCEPT !.pc = "symbol",
                                                           !.idx = ui.pass[k].idx + 1,
                                                           !.errors = errors]]
        ELSE ui' = [ui EXCEPT !.pass[k] = IdlePass, !.isLoading = FALSE]

\* if (token.entryReady) placeOrder(...) else entry_skipped
PassEntry(k, entryReady, slope) ==
    LET s == tracked[ui.pass[k].idx]
    IN  IF entryReady
        THEN /\ PlaceOrderEnter(k, s, slope, <<Event("entry_ready_confirmed", s)>>)
             /\ ui' = [ui EXCEPT !.pass[k].pc = "order"]
        ELSE /\ Advance(k, FALSE)
             /\ Log(<<Event("entry_skipped", s)>>)
             /\ UNCHANGED <<now, lastTradeTime, positionMeta, pendingLimitOrders,
                            orders, position, inv, started, sells, timers>>

\* token.price, null (0) when the feed's answer holds no number, and
\* parseFloat(token.rsi), NaN when fewer than 20 closes left token.rsi null
TokenPrices == Prices \cup {0}
TokenRsis == {NaN, Num(40), Num(60)}

\* a loop whose try block is around the whole loop: an error ends the pass
PassSymbolAborting(k, ok, price, rsi, entryReady, slope, outcome) ==
    /\ ui.pass[k].pc = "symbol"
    /\ outcome \in PositionOutcomes(tracked[ui.pass[k].idx])
    /\ LET s == tracked[ui.pass[k].idx]
           held == getPositionInfo(s, outcome)
       IN  IF ~ok
           THEN /\ ui' = [ui EXCEPT !.pass[k] = IdlePass, !.isLoading = FALSE]
                /\ Log(<<>>)
                /\ UNCHANGED <<now, lastTradeTime, positionMeta,
                               pendingLimitOrders, orders, position, inv,
                               started, sells, timers>>
           ELSE IF held.present
           THEN /\ sells[k].pc = "idle"
                /\ sells' = [sells EXCEPT ![k] =
                       [IdleSell EXCEPT !.pc = "position", !.symbol = s,
                                        !.currentPrice = price,
                                        !.currentRsi = Given(rsi)]]
                /\ ui' = [ui EXCEPT !.pass[k].pc = "sell",
                                    !.pass[k].entryReady = entryReady,
                                    !.pass[k].slope = slope]
                /\ Log(<<>>)
                /\ UNCHANGED <<now, lastTradeTime, positionMeta,
                               pendingLimitOrders, orders, position, inv,
                               started, timers>>
           ELSE PassEntry(k, entryReady, slope)
    /\ UNCHANGED <<system, srv, sized, verify>>

\* The per-symbol work up to the held-position read: the price and history
\* reads and the indicators give the price, the RSI, entryReady and slope, or
\* throw (ok = FALSE) into the symbol's catch block.  A held position starts
\* placeLimitSell(asset.symbol, token.price, parseFloat(token.rsi)); a symbol
\* that is not held goes on to the entry decision, positionMeta as it was.
PassSymbol(k, ok, price, rsi, entryReady, slope, outcome) ==
    /\ ui.pass[k].pc = "symbol"
    /\ outcome \in PositionOutcomes(tracked[ui.pass[k].idx])
    /\ LET s == tracked[ui.pass[k].idx]
           held == getPositionInfo(s, outcome)
       IN  IF ~ok
           THEN /\ Advance(k, TRUE)
                /\ Log(<<>>)
                /\ UNCHANGED <<now, lastTradeTime, positionMeta,
                               pendingLimitOrders, orders, position, inv,
                               started, sells, timers>>
           ELSE IF held.present
           THEN /\ sells[k].pc = "idle"
                /\ sells' = [sells EXCEPT ![k] =
                       [IdleSell EXCEPT !.pc = "position", !.symbol = s,
                                        !.currentPrice = price,
                                        !.currentRsi = Given(rsi)]]
                /\ ui' = [ui EXCEPT !.pass[k].pc = "sell",
                                    !.pass[k].entryReady = entryReady,
                                    !.pass[k].slope = slope]
                /\ Log(<<>>)
                /\ UNCHANGED <<now, lastTradeTime, positionMeta,
                               pendingLimitOrders, orders, position, inv,
                               started, timers>>
           ELSE PassEntry(k, entryReady, slope)
    /\ UNCHANGED <<system, srv, sized, verify>>

\* placeLimitSell has returned to the pass
PassSellReturns(k) ==
    /\ ui.pass[k].pc = "sell"
    /\ sells[k].pc = "idle"
    /\ PassEntry(k, ui.pass[k].entryReady, ui.pass[k].slope)
    /\ UNCHANGED <<system, srv, sized, verify>>

\* placeOrder has returned to the pass
PassOrderReturns(k) ==
    /\ ui.pass[k].pc = "order"
    /\ ~InFlight(k)
    /\ Advance(k, FALSE)
    /\ Log(<<>>)
    /\ RefreshUnchanged

\* the steps of the passes under way
PassNext ==
    \/ \E k \in Slots : PassAccount(k)
    \/ \E k \in Slots, p \in TokenPrices, r \in TokenRsis, e \in BOOLEAN,
          sl \in Slopes, o \in {"ok", "notfound", "error"} :
          PassSymbol(k, TRUE, p, r, e, sl, o)
    \/ \E k \in Slots : PassSymbol(k, FALSE, 0, NaN, FALSE, 0, "error")
    \/ \E k \in Slots : PassSellReturns(k)
    \/ \E k \in Slots : PassOrderReturns(k)

RefreshNext ==
    \/ \E k \in Slots : Mount(k)
    \/ \E k \in Slots : IntervalFires(k)
    \/ \E k \in Slots : onRefresh(k)
    \/ Render
    \/ PassNext

----------------------------------------------------------------------------
(* The sizing functions on their own: the account read and the slope are
   drawn at the start, then one of the two functions is applied *)

\* what a field of the account read may hold
RawAmounts == {Absent, NonNumeric, Field(0), Field(50 * Cent), Field(3 * Dollar),
               Field(100 * Dollar)}
SizedAccounts ==
    { AcctOf(nmbp, bp, cash, equity, pv) :
        nmbp \in RawAmounts, bp \in {Absent, Field(100 * Dollar)},
        cash \in {Absent, Field(50 * Cent), Field(3 * Dollar), Field(200 * Dollar)},
        equity \in RawAmounts \cup {Field(1000 * Dollar)},
        pv \in {Absent, NonNumeric, Field(100 * Dollar)} }

NotSized ==
    [by |-> "none", acct |-> AnyAccount, slope |-> 0, price |-> AnyPrice,
     skip |-> FALSE, cash |-> Num(0), notional |-> Num(0), qty |-> Num(0)]

InitSizing ==
    /\ system = "sizing"
    /\ InitApp
    /\ srv = IdleSrv
    /\ ui = IdleUi
    /\ \E a \in SizedAccounts, sl \in Slopes, p \in Prices :
          sized = [NotSized EXCEPT !.acct = a, !.slope = sl, !.price = p]

SizingUnchanged == UNCHANGED <<system, srv, ui, verify, appVars>>

\* placeOrder's sizing, up to the order it would build
SizeOrder ==
    /\ system = "sizing"
    /\ sized.by = "none"
    /\ LET size == AllocationSize(sized.acct, sized.slope)
       IN  sized' = [sized EXCEPT
                       !.by = "placeOrder", !.skip = size.skip,
                       !.cash = size.cash, !.notional = size.notional,
                       !.qty = IF size.skip THEN Num(0)
                               ELSE OrderQty(size.notional, LimitPrice(sized.price))]
    /\ SizingUnchanged

\* placeMarketBuyThenSell's sizing
SizeMarketBuy ==
    /\ system = "sizing"
    /\ sized.by = "none"
    /\ LET size == MarketBuySize(sized.acct, sized.price)
       IN  sized' = [sized EXCEPT
                       !.by = "placeMarketBuyThenSell", !.skip = size.skip,
                       !.cash = getAccountInfo(sized.acct).cash,
                       !.notional = size.notional, !.qty = size.qty]
    /\ SizingUnchanged

NextSizing == SizeOrder \/ SizeMarketBuy

----------------------------------------------------------------------------
(* The price and quantity arithmetic on its own: the exit prices of the
   backend flows (roundPrice) and of placeLimitSell, the entry limit price of
   placeOrder and the order quantities, applied to chosen inputs *)

\* basis and fill prices, from 0.00001 $ up, and live prices above them
BasisPrices == {10, 5 * 1000, Cent, 100 * Dollar + Cent, 100 * Dollar}
LivePrices == {12, 16, 5 * 1000 + 15, 100 * Dollar + 20 * Cent, 101 * Dollar}
\* reference prices of an entry
ReferencePrices == {5 * 1000, 3 * Dollar, 100 * Dollar}
\* notionals and prices small enough for quantity * price to be formed
SmallNotionals == {7, 1000, 2000}
SmallPrices == {3, 999, 1000}

NotPriced ==
    [by |-> "none", basis |-> 0, live |-> 0, price |-> 0, notional |-> Num(0),
     skip |-> FALSE, limit |-> 0, stop |-> 0, qty |-> Num(0)]

InitPricing ==
    /\ system = "pricing"
    /\ InitApp
    /\ srv = IdleSrv
    /\ ui = IdleUi
    /\ \E b \in BasisPrices, l \in LivePrices,
          p \in ReferencePrices \cup SmallPrices, n \in SmallNotionals :
          sized = [NotPriced EXCEPT !.basis = b, !.live = l, !.price = p,
                                    !.notional = Num(n)]

PricingUnchanged == UNCHANGED <<system, srv, ui, verify, appVars>>

\* the take-profit price of placeLimitBuyThenSell and placeMarketBuyThenSell
PriceBackendSell ==
    /\ system = "pricing"
    /\ sized.by = "none"
    /\ sized' = [sized EXCEPT !.by = "roundPrice", !.limit = SellPrice(sized.basis)]
    /\ PricingUnchanged

\* the same in the module's later copy, with six decimals
PriceBackendSell6 ==
    /\ system = "pricing"
    /\ sized.by = "none"
    /\ sized' = [sized EXCEPT !.by = "roundPrice6", !.limit = SellPrice6(sized.basis)]
    /\ PricingUnchanged

\* placeLimitSell from the target check to the two orders it builds
\* (App.js 522-552): no order when the live price is not above the target
PriceLimitSell ==
    /\ system = "pricing"
    /\ sized.by = "none"
    /\ sized' = [sized EXCEPT
                   !.by = "placeLimitSell",
                   !.skip = BelowTarget(sized.live, sized.basis),
                   !.limit = SellLimitPrice(sized.live),
                   !.stop = StopPrice(sized.basis)]
    /\ PricingUnchanged

\* placeOrder's limit_price and qty (App.js 782-783)
PriceEntry ==
    /\ system = "pricing"
    /\ sized.by = "none"
    /\ sized.price \in ReferencePrices
    /\ sized' = [sized EXCEPT !.by = "placeOrder",
                              !.limit = LimitPrice(sized.price)]
    /\ PricingUnchanged

\* Math.floor((notional / limit_price) * 1e6) / 1e6 of placeOrder
QuantityEntry ==
    /\ system = "pricing"
    /\ sized.by = "none"
    /\ sized.price \in SmallPrices
    /\ sized' = [sized EXCEPT !.by = "qty",
                              !.qty = OrderQty(sized.notional, sized.price)]
    /\ PricingUnchanged

\* roundQty(notional / price) of placeMarketBuyThenSell
QuantityMarketBuy ==
    /\ system = "pricing"
    /\ sized.by = "none"
    /\ sized.price \in SmallPrices
    /\ sized' = [sized EXCEPT !.by = "roundQty",
                              !.qty = roundQty(sized.notional, sized.price)]
    /\ PricingUnchanged

NextPricing ==
    \/ PriceBackendSell
    \/ PriceBackendSell6
    \/ PriceLimitSell
    \/ PriceEntry
    \/ QuantityEntry
    \/ QuantityMarketBuy

----------------------------------------------------------------------------
(* Specifications *)

vars == <<system, srv, sized, ui, verify, appVars>>

\* the steps of the placeOrder and placeLimitSell invocations under way, and
\* of the brokerage
EntryNext ==
    \/ \E k \in Slots, o \in {"ok", "notok", "throw"} : PlaceOrderOpenOrders(k, o)
    \/ \E k \in Slots, o \in {"ok", "notfound", "error"} : PlaceOrderPosition(k, o)
    \/ \E k \in Slots, p \in EntryPrices : PlaceOrderPrice(k, TRUE, p)
    \/ \E k \in Slots : PlaceOrderPrice(k, FALSE, AnyPrice)
    \/ \E k \in Slots, a \in Accounts : PlaceOrderAccount(k, TRUE, a)
    \/ \E k \in Slots : PlaceOrderAccount(k, FALSE, AnyAccount)
    \/ \E k \in Slots, o \in {"accepted", "rejected", "noid", "throw", "lost"} :
          PlaceOrderSubmit(k, o)

SellNext ==
    \/ \E j \in Slots, s \in Symbols : PlaceLimitSellStart(j, s)
    \/ \E j \in Slots, o \in {"ok", "notfound", "error"} : PlaceLimitSellPosition(j, o)
    \/ \E j \in Slots, p \in QuotedPrices : PlaceLimitSellPrice(j, TRUE, p)
    \/ \E j \in Slots : PlaceLimitSellPrice(j, FALSE, AnyPrice)

\* the steps of the placeLimitSell invocations under way
SellSteps ==
    \/ \E j \in Slots, o \in {"ok", "notfound", "error"} : PlaceLimitSellPosition(j, o)
    \/ \E j \in Slots, p \in QuotedPrices : PlaceLimitSellPrice(j, TRUE, p)
    \/ \E j \in Slots : PlaceLimitSellPrice(j, FALSE, AnyPrice)

BrokerNext ==
    \/ \E i \in 1..Len(orders) : BrokerFill(i)
    \/ \E i \in 1..Len(orders) : BrokerPartialFill(i)

StepNext == EntryNext \/ SellNext \/ BrokerNext

AppNext ==
    \/ \E k \in Slots, s \in Watched, m \in BOOLEAN, sl \in Slopes :
          PlaceOrderStart(k, s, m, sl)
    \/ StepNext
    \/ Tick

\* the app's entry engine, or the backend's trade flows
Init ==
    /\ system \in {"app", "server"}
    /\ InitApp
    /\ srv = IdleSrv
    /\ sized = NotSized
    /\ ui = IdleUi
Next == AppNext \/ ServerNext
Spec == Init /\ [][Next]_vars

\* the app with its refresh passes
InitRefresh ==
    /\ system = "refresh"
    /\ InitApp
    /\ srv = IdleSrv
    /\ sized = NotSized
    /\ ui = IdleUi
NextRefresh == RefreshNext \/ StepNext
SpecRefresh == InitRefresh /\ [][NextRefresh]_vars

\* the app with its refresh passes over hours, positions held and closed;
\* the timers set on the way stay pending, entry orders fill whole
InitHold ==
    /\ system = "hold"
    /\ InitApp
    /\ srv = IdleSrv
    /\ sized = NotSized
    /\ ui = IdleUi
NextHold ==
    \/ RefreshNext
    \/ EntryNext
    \/ \E j \in Slots, o \in {"ok", "notfound", "error"} : PlaceLimitSellPosition(j, o)
    \/ \E j \in Slots, p \in QuotedPrices : PlaceLimitSellPrice(j, TRUE, p)
    \/ \E j \in Slots : PlaceLimitSellPrice(j, FALSE, AnyPrice)
    \/ \E i \in 1..Len(orders) : BrokerFill(i)
    \/ \E s \in Symbols : BrokerExit(s)
    \/ Hold
SpecHold == InitHold /\ [][NextHold]_vars

\* the app's refresh passes over the whole token list; the timers set on the
\* way stay pending, entry orders fill whole
InitLoop ==
    /\ system = "loop"
    /\ InitApp
    /\ srv = IdleSrv
    /\ sized = NotSized
    /\ ui = IdleUi
NextLoop ==
    \/ RefreshNext
    \/ EntryNext
    \/ SellSteps
    \/ \E i \in 1..Len(orders) : BrokerFill(i)
SpecLoop == InitLoop /\ [][NextLoop]_vars

\* the app's entry orders and their verification; the sell timers set on the
\* way stay pending
InitVerify ==
    /\ system = "verify"
    /\ InitApp
    /\ srv = IdleSrv
    /\ sized = NotSized
    /\ ui = IdleUi
NextVerify ==
    \/ \E k \in Slots, s \in Watched, m \in BOOLEAN, sl \in Slopes :
          PlaceOrderStart(k, s, m, sl)
    \/ EntryNext
    \/ VerifyNext
    \/ BrokerNext
    \/ Tick
SpecVerify == InitVerify /\ [][NextVerify]_vars

\* the same, with timers that come due and requests that are answered: a
\* setTimeout callback runs, and an await resumes, once it can
SpecVerifyLive ==
    /\ SpecVerify
    /\ WF_vars(VerifyNext)
    /\ WF_vars(EntryNext)

\* the sizing functions
SpecSizing == InitSizing /\ [][NextSizing]_vars

\* the price and quantity arithmetic
SpecPricing == InitPricing /\ [][NextPricing]_vars

----------------------------------------------------------------------------
(* Properties *)

EntryOrders(s) ==
    {i \in 1..Len(orders) : orders[i].symbol = s /\ orders[i].side = "buy"
                            /\ orders[i].by # 0}

\* C1: two placeOrder invocations for the same symbol that run concurrently
\* never leave two entry orders open at the brokerage at once: at most one of
\* them submits.
C1_ConcurrentInvocationsOneEntry ==
    \A s \in Symbols : \A i, j \in EntryOrders(s) :
        (/\ i # j
         /\ orders[i].status \in OpenStatus
         /\ orders[j].status \in OpenStatus)
            => orders[i].by \notin orders[j].peers

\* the step in which invocation k sends POST /buy
Submits(k) == inv[k].pc = "account" /\ inv'[k].pc = "submit"

\* C2: placeOrder sends no entry order for a symbol while
\* pendingLimitOrders holds an entry for it or while the brokerage has an
\* open order for it, whatever the open-orders read answered.
C2_NoSubmitWhilePendingOrOpen ==
    [][\A k \in Slots :
         Submits(k) => /\ ~pendingLimitOrders[inv[k].symbol].present
                       /\ OpenOrdersOf(inv[k].symbol) = {}]_vars

\* C3: for every account read, fields absent or non-numeric included, the
\* notional placeOrder builds its order from is a number, is not negative and
\* is at most cash - SAFETY_MARGIN.
C3_NotionalWithinCash ==
    (sized.by = "placeOrder" /\ ~sized.skip)
        => /\ ~isNaN(sized.notional)
           /\ ~isNaN(sized.cash)
           /\ sized.notional.v >= 0
           /\ sized.notional.v <= sized.cash.v - SAFETY_MARGIN

\* C4: a loadData started while an earlier pass is running returns without
\* per-symbol work: two passes are never in their per-symbol loop together.
C4_OnePassInLoop == Cardinality({k \in Slots : InLoop(k)}) <= 1

\* C5: every sell order at the brokerage, from the backend's flows or from
\* the app's placeLimitSell, was submitted after the entry order for the
\* symbol was filled.
C5_SellOnlyAfterFill ==
    \A i \in 1..Len(orders) :
        orders[i].side = "sell"
            => \E j \in 1..(i - 1) : /\ orders[j].side = "buy"
                                     /\ orders[j].symbol = orders[i].symbol
                                     /\ orders[j].status = "filled"
C5_Witness ==
    /\ srv.result = "sold"
    /\ \E i \in 1..Len(orders) : orders[i].side = "sell" /\ orders[i].qty > 0

\* C6: two entry orders for one symbol that placeOrder saw accepted are at
\* least COOL_DOWN_MS apart.
C6_CooldownSeparation ==
    \A s \in Symbols : \A i, j \in EntryOrders(s) :
        (i < j /\ orders[i].acked /\ orders[j].acked)
            => orders[j].at - orders[i].at >= COOL_DOWN_MS

\* the step in which invocation k learns that its submission failed
SubmissionFails(k) ==
    /\ inv[k].pc = "submit"
    /\ inv'[k].pc = "idle"
    /\ (orders' = orders \/ ~orders'[Len(orders')].acked)

\* C7: a submission that fails (non-OK answer, answer without an id, or a
\* thrown request) is logged as buy_failed or buy_error and changes none of
\* lastTradeTime, positionMeta, pendingLimitOrders, and schedules no timer.
C7_FailedSubmissionChangesNothing ==
    [][\A k \in Slots :
         SubmissionFails(k)
            => /\ log' \in {<<Event("buy_failed", inv[k].symbol)>>,
                            <<Event("buy_error", inv[k].symbol)>>}
               /\ lastTradeTime' = lastTradeTime
               /\ positionMeta' = positionMeta
               /\ pendingLimitOrders' = pendingLimitOrders
               /\ timers' = timers]_vars
C7_Witness ==
    \E s \in Symbols :
        /\ log = <<Event("buy_failed", s)>>
        /\ lastTradeTime[s] = 0
        /\ ~pendingLimitOrders[s].present
        /\ timers[s].sell = 0

Reads == <<"orders", "position", "price", "account", "submit">>
Quiet == UNCHANGED <<lastTradeTime, positionMeta, pendingLimitOrders, orders,
                     position, timers>>

\* C8: placeOrder checks the cooldown, then the open orders, then the held
\* position.  A failed guard returns at once: nothing is written, no order is
\* sent and the later reads are not issued; a guard is passed only when its
\* condition does not hold.
C8_GuardOrder ==
    [][/\ \A s \in Symbols :
            \* the cooldown guard, before any read
            (started' # started /\ CooldownActive(s, now))
                => \A k \in Slots : inv'[k].symbol = s => inv'[k] = inv[k]
       /\ \A s \in Symbols :
            log' = <<Event("cooldown_skip", s)>>
                => CooldownActive(s, now) /\ inv' = inv /\ Quiet
       /\ \A k \in Slots :
            /\ InFlight(k)' =>
                  inv'[k].reads = SubSeq(Reads, 1, Len(inv'[k].reads))
            \* the open-orders guard
            /\ (inv[k].pc = "openOrders" /\ inv'[k].pc = "idle")
                  => /\ OpenOrdersOf(inv[k].symbol) # {}
                     /\ inv[k].reads = <<"orders">>
                     /\ log' = <<Event("skip_open_orders", inv[k].symbol)>>
                     /\ Quiet
            /\ (inv[k].pc = "openOrders" /\ inv'[k].pc = "position")
                  => OpenOrdersOf(inv[k].symbol) = {} \/ inv'[k].readFailed
            \* the held-position guard
            /\ (inv[k].pc = "position" /\ inv'[k].pc = "idle")
                  => /\ ProductAboveOne(position[inv[k].symbol].qty,
                                        position[inv[k].symbol].basis)
                     /\ inv[k].reads = <<"orders", "position">>
                     /\ log' = <<Event("skip_held_position", inv[k].symbol),
                                 Event("buy_attempt_skipped", inv[k].symbol)>>
                     /\ Quiet]_vars
C8_Witness ==
    \E s \in Symbols :
        /\ log = <<Event("skip_open_orders", s)>>
        /\ OpenOrdersOf(s) # {}
        /\ \A k \in Slots : ~InFlight(k)

\* C9: when a guard read fails (the open-orders or the position read is
\* answered with an error or throws), the invocation sends no order.
C9_FailedReadSkips ==
    \A k \in Slots : inv[k].pc = "submit" => ~inv[k].readFailed

\* C10: with cash below the $1 minimum both sizings skip, whatever the
\* equity: placeOrder returns before the order, placeMarketBuyThenSell
\* returns {skipped: true}.
C10_NoCashSkips ==
    (sized.by # "none" /\ Lt(sized.cash, Num(MIN_NOTIONAL))) => sized.skip

\* C11: when verifyLimitBuyFilled sends the market retry (entry not filled,
\* signal valid, limit order cancelled), the order that POST /buy forwards to
\* the brokerage carries the notional of the pending entry.
C11_RetryCarriesNotional ==
    \A j \in Slots :
        verify[j].pc = "retry"
            => LET forwarded == BuyRoute(RetryOrder(j))
               IN  /\ "notional" \in DOMAIN forwarded
                   /\ forwarded.notional = verify[j].notional

\* the step in which verification j, having found the signal invalid, ends
SignalLostEnds(j) == verify[j].pc = "cancelLost" /\ verify'[j].pc = "idle"

\* C12: when the verification finds the entry unfilled and the signal
\* invalid, then at its end the entry order is cancelled at the brokerage,
\* the pending entry is cleared and no part of the order was bought.
C12_SignalLostCancels ==
    [][\A j \in Slots :
         SignalLostEnds(j)
            => /\ orders'[verify[j].orderId].status = "canceled"
               /\ orders'[verify[j].orderId].filled = 0
               /\ ~pendingLimitOrders'[verify[j].symbol].present]_vars

\* the re-fetch of the order fails: the status step ends the verification
\* of an order that is not filled
RefetchFails(j) ==
    /\ verify[j].pc = "status"
    /\ verify'[j].pc = "idle"
    /\ orders[verify[j].orderId].status # "filled"

\* the cancel request is over and the order is not cancelled
CancelFails(j) ==
    /\ verify[j].pc \in {"cancelRetry", "cancelLost"}
    /\ verify'[j].pc # verify[j].pc
    /\ orders'[verify[j].orderId].status # "canceled"

\* C13: a failed re-fetch or an unsuccessful cancel ends the verification
\* with a buy_retry_error event and the pending entry as it was: no silent
\* return, and no going on as if the order were cancelled.
C13_FailureAbortsAndLogs ==
    [][\A j \in Slots :
         (RefetchFails(j) \/ CancelFails(j))
            => /\ verify'[j].pc = "idle"
               /\ log' = <<Event("buy_retry_error", verify[j].symbol)>>
               /\ UNCHANGED pendingLimitOrders]_vars

\* filled, canceled (the model has no rejected orders)
TerminalStatus == {"filled", "canceled"}

\* C14: whenever the order tracked by a pending entry is in a terminal
\* status, the pending entry is eventually removed, with timers that come
\* due and for every outcome of the requests of verifyLimitBuyFilled.
C14_PendingEventuallyRemoved ==
    \A s \in Symbols :
        (/\ pendingLimitOrders[s].present
         /\ orders[pendingLimitOrders[s].orderId].status \in TerminalStatus)
            ~> ~pendingLimitOrders[s].present

\* C15: every pending entry carries the id of an order of its symbol whose
\* submission placeOrder saw accepted, after error paths too.
C15_PendingHasOrderId ==
    \A s \in Symbols :
        pendingLimitOrders[s].present
            => /\ pendingLimitOrders[s].orderId \in 1..Len(orders)
               /\ orders[pendingLimitOrders[s].orderId].acked
               /\ orders[pendingLimitOrders[s].orderId].symbol = s
               /\ orders[pendingLimitOrders[s].orderId].by # 0
C15_Witness ==
    \E s \in Symbols :
        /\ log \in {<<Event("buy_retry_error", s)>>, <<Event("buy_retry_failed", s)>>}
        /\ pendingLimitOrders[s].present
        /\ pendingLimitOrders[s].orderId > 0

\* the step in which invocation k learns that its submission was accepted
SubmissionAccepted(k) ==
    /\ inv[k].pc = "submit"
    /\ inv'[k].pc = "idle"
    /\ Len(orders') = Len(orders) + 1
    /\ orders'[Len(orders')].acked

C17_FillWaitBounded ==
    /\ srv.gets <= POLL_ATTEMPTS
    /\ srv.i <= srv.gets
    /\ srv.slept = POLL_SLEEP_MS * srv.i
    /\ srv.pc = "poll" => srv.gets < POLL_ATTEMPTS
    /\ srv.gets = POLL_ATTEMPTS
          => \/ srv.status = "filled"
             \/ srv.pc = "threw" /\ srv.result \in {"not_filled", "error"}
C17_Witness ==
    /\ srv.gets = POLL_ATTEMPTS
    /\ srv.result = "not_filled"
    /\ srv.slept = POLL_ATTEMPTS * POLL_SLEEP_MS

\* C18: running out of attempts without a fill is an outcome the flow
\* returns, not an exception, while a failed get-order call ends the wait
\* at once, with no sell, and is thrown to the caller.
C18_TimeoutIsAnOutcome ==
    /\ srv.result = "not_filled" => srv.pc = "returned"
    /\ (srv.result = "error" /\ srv.gets > 0 /\ srv.status # "filled")
          => /\ srv.pc = "threw"
             /\ \A i \in 1..Len(orders) : orders[i].side # "sell"

\* C19: once a poll has returned the status canceled, no further get-order
\* call is made for the order.
C19_StopsOnCancel ==
    [][(srv.pc = "poll" /\ srv.status = "canceled") => srv'.gets = srv.gets]_vars

\* a step of placeLimitSell that logs the failure of the limit sell
LimitSellFails ==
    \E s \in Symbols : \E n \in 1..Len(log') :
        log'[n] \in {Event("sell_error", s), Event("sell_failed", s)}

MarkupCovered(basis, limit, slack) ==
    limit + slack - basis >= (basis * TOTAL_MARKUP + 999) \div 1000

\* stop is basis * (1 - STOP_LOSS_PERCENT) rounded to 1e-5 $: 1000 / 25 = 40
StopAtPercent(basis, stop) ==
    /\ (basis - stop) * 40 - basis <= 200
    /\ basis - (basis - stop) * 40 <= 200

\* C21: every take-profit price is the basis marked up by at least
\* FEE_BUFFER + TARGET_PROFIT (up to the rounding of the price), in the
\* backend flows and in placeLimitSell, and every stop price is the basis
\* less STOP_LOSS_PERCENT; a basis of 100 gives a stop of 97.50.
C21_ExitPrices ==
    /\ sized.by = "roundPrice" => MarkupCovered(sized.basis, sized.limit, Cent \div 2)
    /\ sized.by = "roundPrice6" => MarkupCovered(sized.basis, sized.limit, 1)
    /\ (sized.by = "placeLimitSell" /\ ~sized.skip)
          => /\ MarkupCovered(sized.basis, sized.limit, 10)
             /\ StopAtPercent(sized.basis, sized.stop)
             /\ sized.basis = 100 * Dollar => sized.stop = 97 * Dollar + 50 * Cent

\* C22: for every positive basis, prices far below a cent included, the
\* rounded take-profit price is above the basis and the rounded stop price
\* is below it.
C22_ExitPricesStraddleBasis ==
    /\ sized.by \in {"roundPrice", "roundPrice6"} => sized.limit > sized.basis
    /\ (sized.by = "placeLimitSell" /\ ~sized.skip)
          => /\ sized.limit > sized.basis
             /\ sized.stop < sized.basis

\* C26: the notional of an entry order, from placeOrder or from
\* placeMarketBuyThenSell, is a number of whole cents and at most
\* (cash - SAFETY_MARGIN) * SAFETY_FACTOR.
C26_NotionalWithinMargin ==
    (sized.by \in {"placeOrder", "placeMarketBuyThenSell"} /\ ~sized.skip)
        => /\ ~isNaN(sized.notional)
           /\ ~isNaN(sized.cash)
           /\ sized.notional.v % Cent = 0
           /\ sized.notional.v
                 <= MulPct(Num(sized.cash.v - SAFETY_MARGIN), SAFETY_FACTOR).v

\* C27: the quantity of an entry order is the largest multiple of 1e-6 with
\* quantity * price <= notional, in placeOrder and in roundQty.
C27_QuantityFloored ==
    (sized.by \in {"qty", "roundQty"} /\ ~isNaN(sized.qty))
        => /\ sized.qty.v * sized.price <= sized.notional.v * Dollar
           /\ (sized.qty.v + 1) * sized.price > sized.notional.v * Dollar
C27_Witness ==
    /\ sized.by = "qty"
    /\ sized.qty.v > 0
    /\ sized.qty.v * sized.price < sized.notional.v * Dollar

\* C28: the entry limit price of placeOrder is never above the unrounded
\* price * BUY_LIMIT_BUFFER, and the take-profit price of placeLimitSell is
\* the live price rounded to the nearest 1e-5 $, not floored.
C28_RoundingBySide ==
    /\ sized.by = "placeOrder"
          => (sized.price - sized.limit) * 1000
                >= sized.price * (1000 - BUY_LIMIT_BUFFER)
    /\ (sized.by = "placeLimitSell" /\ ~sized.skip)
          => sized.limit = ((sized.live + 5) \div 10) * 10

\* C29: with cash 100 and equity 100 and a slope below the threshold,
\* placeOrder's entry notional is 8.73 and the quantity is
\* floor(notional / limit price) at 1e-6.
C29_ScenarioA ==
    (/\ sized.by = "placeOrder"
     /\ AccountCash(sized.acct) = Num(100 * Dollar)
     /\ AccountEquity(sized.acct) = Num(100 * Dollar)
     /\ sized.slope < SLOPE_THRESHOLD)
        => /\ ~sized.skip
           /\ sized.notional = Num(8 * Dollar + 73 * Cent)
           /\ sized.qty = Num(ScaledDiv(sized.notional.v, LimitPrice(sized.price), 6))

\* C25: every return of placeOrder and of verifyLimitBuyFilled appends at
\* least one event to the trade log: no invocation ends, and no verification
\* timer is spent, in a step that logs nothing.
C25_EveryReturnLogs ==
    [][/\ \A k \in Slots : (InFlight(k) /\ ~InFlight(k)') => log' # <<>>
       /\ \A j \in Slots :
            (verify[j].pc # "idle" /\ verify'[j].pc = "idle") => log' # <<>>
       /\ \A s \in Symbols :
            (timers'[s].verify < timers[s].verify /\ verify' = verify)
                => log' # <<>>]_vars

\* what the guards of placeOrder read, and what they could write
GuardState ==
    <<lastTradeTime, positionMeta, pendingLimitOrders, orders, position, timers>>

\* C30: a guard evaluation of placeOrder writes nothing, and its decision is
\* a function of what it reads (the clock and lastTradeTime, the open orders,
\* the held position): evaluated again on the same state it decides the same.
C30_GuardsArePureReads ==
    [][\A k \in Slots :
         /\ started' # started => UNCHANGED GuardState
         /\ \A s \in Symbols :
              log' = <<Event("cooldown_skip", s)>> => CooldownActive(s, now)
         /\ (~InFlight(k) /\ InFlight(k)')
              => ~CooldownActive(inv'[k].symbol, now)
         /\ (inv[k].pc = "openOrders" /\ inv'[k] # inv[k])
              => /\ UNCHANGED GuardState
                 /\ inv'[k].pc = "idle" => OpenOrdersOf(inv[k].symbol) # {}
                 /\ (inv'[k].pc = "position" /\ ~inv'[k].readFailed)
                       => OpenOrdersOf(inv[k].symbol) = {}
         /\ (inv[k].pc = "position" /\ inv'[k] # inv[k])
              => /\ UNCHANGED GuardState
                 /\ inv'[k].pc = "idle"
                       => HeldAboveMinimum(getPositionInfo(inv[k].symbol, "ok"))
                 /\ (inv'[k].pc = "price" /\ ~inv'[k].readFailed)
                       => ~HeldAboveMinimum(getPositionInfo(inv[k].symbol, "ok"))]_vars
C30_Witness ==
    \E s \in Symbols :
        /\ log = <<Event("skip_held_position", s), Event("buy_attempt_skipped", s)>>
        /\ position[s].qty > 0
        /\ started = MaxCalls

Logged(events, type, s) == \E n \in 1..Len(events) : events[n] = Event(type, s)

\* a placeLimitSell started by a refresh pass ends in the forced exit of an
\* aged position
ForcedExitTaken(j) ==
    /\ sells[j].pc = "position"
    /\ ~sells[j].currentRsi.null
    /\ ForcedExitDue(positionMeta'[sells[j].symbol], sells[j].currentPrice,
                     sells[j].currentRsi, now)
    /\ Logged(log', "forced_exit_age", sells[j].symbol)

\* C23: when a refresh pass runs placeLimitSell on a position held for more
\* than two hours, with the price within 0.5% of the entry price and the RSI
\* below 50, that invocation submits a market sell for the full available
\* quantity, and no take-profit limit sell.
C23_AgedPositionSoldAtMarket ==
    [][\A j \in Slots :
         ForcedExitTaken(j)
            => /\ Len(orders') = Len(orders) + 1
               /\ LET o == orders'[Len(orders')]
                  IN  /\ o.symbol = sells[j].symbol
                      /\ o.side = "sell"
                      /\ o.type = "market"
                      /\ o.qty = Available(sells[j].symbol)
               /\ sells'[j].pc = "idle"]_vars

\* an entry of the symbol has filled and the position is closed again
ExitFilled(s) ==
    /\ position[s].qty = 0
    /\ \E i \in 1..Len(orders) :
          orders[i].symbol = s /\ orders[i].side = "buy" /\ orders[i].filled > 0

\* a refresh pass reads the symbol's position and finds none
ObservesFlat(k) ==
    /\ ui.pass[k].pc = "symbol"
    /\ ui'.pass[k].pc \in {"order", "idle"}
    /\ \/ Logged(log', "entry_skipped", tracked[ui.pass[k].idx])
       \/ Logged(log', "entry_ready_confirmed", tracked[ui.pass[k].idx])

\* C24: once a position's exit has filled, the refresh pass that finds the
\* symbol flat leaves no positionMeta entry for it, so that a position
\* opened later starts with its own age and entry price.
C24_MetaClearedWhenFlat ==
    [][\A k \in Slots :
         (ObservesFlat(k) /\ ExitFilled(tracked[ui.pass[k].idx]))
            => ~positionMeta'[tracked[ui.pass[k].idx]].present]_vars

\* C31: in a refresh pass an error while one symbol is processed ends that
\* symbol's cycle only: the pass goes on to the next tracked symbol, tokens
\* are taken one by one in the order of the list, the pass ends only after
\* the last of them and then resets the loading flag; and a pass under way
\* is never stuck: it, or the exit or entry step it awaits, has a next step
\* (while placeOrder calls are left in the behaviour).
C31_ErrorAbortsOnlyItsSymbol ==
    /\ [][\A k \in Slots :
            /\ (ui.pass[k].pc \in LoopPcs /\ ui'.pass[k].pc # "idle"
                   /\ ui.pass[k].idx \in ui'.pass[k].errors)
                  => /\ ui'.pass[k].pc = "symbol"
                     /\ ui'.pass[k].idx = ui.pass[k].idx + 1
                     /\ ui.pass[k].idx < Len(tracked)
                     /\ orders' = orders
            /\ (ui.pass[k].pc # "idle" /\ ui'.pass[k].pc # "idle")
                  => ui'.pass[k].idx \in {ui.pass[k].idx, ui.pass[k].idx + 1}
            /\ (ui.pass[k].pc # "idle" /\ ui'.pass[k].pc = "idle")
                  => /\ ui.pass[k].idx = Len(tracked)
                     /\ ~ui'.isLoading]_vars
    /\ [](\A k \in Slots :
            (ui.pass[k].pc # "idle" /\ started < MaxCalls)
               => ENABLED (PassNext \/ EntryNext \/ SellSteps))
\* the first token's cycle ended in the catch block and the pass is in the
\* second token's entry step
C31_Witness ==
    \E k \in Slots :
        /\ ui.pass[k].errors = {1}
        /\ ui.pass[k].idx = 2
        /\ ui.pass[k].pc = "order"
        /\ inv[k].symbol = tracked[2]
        /\ inv[k].pc # "idle"

\* a working stop-loss sell for the symbol at the stop price of the basis
StopLossWorking(book, s, basis) ==
    \E i \in 1..Len(book) :
        /\ book[i].symbol = s
        /\ book[i].side = "sell"
        /\ book[i].type = "stop"
        /\ book[i].status \in OpenStatus
        /\ book[i].limit_price = StopPrice(basis)

\* C32: when placeLimitSell, run for a held position, reads a price at or
\* below basis * (1 - STOP_LOSS_PERCENT), a stop-loss sell at that stop price
\* is working for the position once the invocation has ended, although the
\* price never rose above the take-profit target.
C32_StopLossWhenPriceFalls ==
    [][\A j \in Slots, p \in QuotedPrices :
         (/\ sells[j].pc = "price"
          /\ p <= StopPrice(sells[j].basis)
          /\ PlaceLimitSellPrice(j, TRUE, p))
            => StopLossWorking(orders', sells[j].symbol, sells[j].basis)]_vars

BuyOrdersOf(s) == {i \in 1..Len(orders) : orders[i].symbol = s /\ orders[i].side = "buy"}

\* C33: one call of the retrying placeMarketBuyThenSell leaves at most one
\* buy order at the brokerage, whatever the first attempt came to, and a
\* call that ended after a failed retry has read no order and placed no sell.
C33_AtMostOneBuyPerCall ==
    srv.flow = "retrying"
       => /\ Cardinality(BuyOrdersOf(srv.symbol)) <= 1
          /\ (srv.pc = "threw" /\ srv.buyId = 0)
                => /\ srv.gets = 0
                   /\ \A i \in 1..Len(orders) : orders[i].side # "sell"

\* verifyLimitBuyFilled sends the market retry's POST /buy
RetrySubmitted(j) == verify[j].pc = "retry" /\ verify'[j].pc = "idle"

\* C34: verifyLimitBuyFilled sends the market retry only for a limit entry
\* that can no longer fill: the entry is cancelled at the brokerage and
\* nothing of it has filled.
C34_RetryOnlyAfterCancel ==
    [][\A j \in Slots :
         RetrySubmitted(j)
            => /\ orders[verify[j].orderId].status = "canceled"
               /\ orders[verify[j].orderId].filled = 0]_vars

\* the quantities of the sell orders for s in book from place n on, summed
RECURSIVE SellQtyFrom(_, _, _)
SellQtyFrom(book, s, n) ==
    IF n > Len(book) THEN 0
    ELSE (IF book[n].symbol = s /\ book[n].side = "sell" THEN book[n].qty ELSE 0)
         + SellQtyFrom(book, s, n + 1)

WorkingLimitSells(s) ==
    {i \in 1..Len(orders) : /\ orders[i].symbol = s
                            /\ orders[i].side = "sell"
                            /\ orders[i].type = "limit"
                            /\ orders[i].status \in OpenStatus}

C37_TimedOutBuyNotWorking ==
    srv.result = "not_filled" => orders[srv.buyId].status \notin OpenStatus

MarketFlows == {"market", "retrying"}

\* C38: in placeMarketBuyThenSell a sell that fails after the buy filled is
\* returned, not thrown: /trade answers 200 with the filled buy and a
\* sellError, and no sell order is at the brokerage; a failed buy, a failed
\* poll and the fill timeout make /trade answer 500; and the one sell
\* attempt ends the call.
C38_SellFailureIsReturned ==
    /\ [](srv.flow \in MarketFlows
            => /\ srv.result = "sellError"
                    => /\ TradeStatus = 200
                       /\ orders[srv.buyId].status = "filled"
                       /\ \A i \in 1..Len(orders) : orders[i].side # "sell"
               /\ srv.result \in {"error", "not_filled"} => TradeStatus = 500
               /\ srv.result \in {"sold", "skipped"} => TradeStatus = 200)
    /\ [][(srv.flow \in MarketFlows /\ srv.pc = "sell" /\ srv' # srv)
            => /\ srv'.pc = "returned"
               /\ srv'.result = IF orders' = orders THEN "sellError" ELSE "sold"
               /\ Len(orders') <= Len(orders) + 1]_vars
C38_Witness ==
    /\ srv.flow \in MarketFlows
    /\ srv.result = "sellError"
    /\ srv.pc = "returned"
    /\ orders[srv.buyId].filled > 0

====
